---- MODULE Spec2Model ----
(***************************************************************************)
(* Retrieval orchestration of the travel planner: the FAISS-backed vector  *)
(* index (src/retrievers/vector_store.py), the per-category retrievers and *)
(* their filters (src/retrievers/knowledge_retrievers.py), and the         *)
(* planning workflow graph (src/graph/nodes.py, src/graph/workflow.py).    *)
(*                                                                         *)
(* Three specifications share the variables:                               *)
(*   StoreSpec      one FAISSVectorStore driven through add_documents,     *)
(*                  similarity_search, save and load;                      *)
(*   RetrieverSpec  one retriever answering retrieve / _apply_filters;     *)
(*   Spec           one run of planner_graph (FairSpec adds fairness).     *)
(* A Python call that can raise is an operator returning                   *)
(* [raised |-> <exception name or "">, value |-> <result>].                *)
(***************************************************************************)
EXTENDS Integers, Sequences, FiniteSets, TLC

VARIABLES
    store,       \* the FAISSVectorStore: [index, texts, metadatas]
    disk,        \* the directory save() writes and load() reads
    saved,       \* the store contents at the last save() (history variable)
    ret,         \* the last call on the store or retriever and what it returned
    calls,       \* how many calls the store or retriever has served
    source_type, \* the knowledge source of the retriever that owns the store
    retrievers,  \* per retrieval node, the vector store its own retriever holds
    state,       \* PlannerState of the workflow run (a dict: key -> value)
    active,      \* nodes scheduled in the current step of the graph
    finished,    \* nodes of the current step that have returned
    pending,     \* their returned updates, in order of completion
    order,       \* every node completion of the run, in order (history variable)
    runs,        \* how many times each node has been executed
    cycles,      \* how many times control went back into the graph after aggregation
    failed,      \* the nodes that raised (history variable)
    status,      \* "running", "done" (reached END) or "aborted" (a node raised)
    disks,       \* per knowledge source, the directory its retriever loads from
    main_retriever, \* the stores of the MultiSourceRetriever that main.py's plan builds
    model,       \* EmbeddingModel._model: 0 for None, else the instance it holds
    constructed, \* how many SentenceTransformer instances have been constructed
    pc,          \* per caller of EmbeddingModel.model, where it is in the property
    instance     \* per caller, the instance it constructed or was handed

storeVars == <<store, disk, saved, ret, calls, source_type>>
flowVars == <<retrievers, state, active, finished, pending, order, runs, cycles, failed,
              status>>
embedVars == <<model, constructed, pc, instance>>
vars == <<store, disk, saved, ret, calls, source_type, retrievers, state, active,
          finished, pending, order, runs, cycles, failed, status, disks, main_retriever,
          model, constructed, pc, instance>>

(***************************************************************************)
(* Bounds of the model.                                                    *)
(***************************************************************************)
MaxStored == 2
MaxK == 2
MaxCalls == 4
MaxCycles == 4
MaxOver == 1

(***************************************************************************)
(* Python helpers.                                                         *)
(***************************************************************************)
Min(a, b) == IF a <= b THEN a ELSE b

Range(s) == {s[i] : i \in 1..Len(s)}

\* s[:n]
Take(s, n) == SubSeq(s, 1, Min(n, Len(s)))

\* d.get(key, default)
Get(d, key, default) == IF key \in DOMAIN d THEN d[key] ELSE default

\* a call's outcome
Ok(v) == [raised |-> "", value |-> v]
Raise(e, v) == [raised |-> e, value |-> v]

\* lst[idx] with Python's 0-based, negative-from-the-end indexing
InRange(lst, idx) == idx < Len(lst) /\ idx >= 0 - Len(lst)
Item(lst, idx) == lst[(IF idx < 0 THEN idx + Len(lst) ELSE idx) + 1]

(***************************************************************************)
(* The knowledge categories and their documents.  A document is what the   *)
(* ingestion builds for one record: a text, its embedding and a metadata   *)
(* dict.  Embeddings are 2-dimensional here.                               *)
(***************************************************************************)
ATTRACTIONS == "attractions"
FOOD == "food"
TRANSPORT == "transport"
TIPS == "tips"
ITINERARIES == "itineraries"

KnowledgeSource == {ATTRACTIONS, FOOD, TRANSPORT, TIPS, ITINERARIES}

dimension == 2

EmptyMeta == [k \in {} |-> 0]

Catalogue(source) ==
    CASE source = ATTRACTIONS ->
           << [text |-> "Louvre", embedding |-> <<0, 0>>,
               metadata |-> [id |-> "a1", category |-> "museum", admission_fee |-> 8,
                             tags |-> <<"art", "food">>]],
              [text |-> "Luxembourg Garden", embedding |-> <<1, 1>>,
               metadata |-> [id |-> "a2", category |-> "park", admission_fee |-> 0,
                             tags |-> <<>>]],
              [text |-> "Eiffel Tower", embedding |-> <<1, 0>>,
               metadata |-> [id |-> "a3", category |-> "landmark", admission_fee |-> 30,
                             tags |-> <<"art", "crowds">>]],
              [text |-> "Street Market", embedding |-> <<0, 1>>,
               metadata |-> [id |-> "a4", tags |-> <<"food">>]] >>
      [] source = FOOD ->
           << [text |-> "Le Potager", embedding |-> <<0, 0>>,
               metadata |-> [id |-> "f1", cuisine |-> <<"french">>,
                             dietary_options |-> <<"vegetarian", "vegan">>,
                             price_range |-> "E"]],
              [text |-> "Grand Steakhouse", embedding |-> <<1, 0>>,
               metadata |-> [id |-> "f2", cuisine |-> <<"grill">>,
                             dietary_options |-> <<>>,
                             price_range |-> "EEE"]],
              [text |-> "Bistro Midi", embedding |-> <<1, 1>>,
               metadata |-> [id |-> "f3", cuisine |-> <<"french">>,
                             dietary_options |-> <<"vegetarian">>]] >>
      [] source = TIPS ->
           << [text |-> "Buy a carnet of metro tickets", embedding |-> <<0, 1>>,
               metadata |-> EmptyMeta],
              [text |-> "Museums close on Tuesday", embedding |-> <<1, 1>>,
               metadata |-> EmptyMeta] >>
      [] source = ITINERARIES ->
           << [text |-> "Paris in three days", embedding |-> <<0, 0>>,
               metadata |-> [destination |-> "Paris", duration_days |-> 3]],
              [text |-> "A week in Rome", embedding |-> <<1, 0>>,
               metadata |-> [destination |-> "Rome", duration_days |-> 7]] >>
      [] OTHER -> << >>

\* EmbeddingModel.embed_text: the external model, a fixed function of the text
QueryEmbeddings == {<<1, 1>>, <<1, 0>>}

(***************************************************************************)
(* FAISSVectorStore.                                                       *)
(***************************************************************************)
\* __init__: an empty IndexFlatL2, no texts, no metadatas
NewStore == [index |-> <<>>, texts |-> <<>>, metadatas |-> <<>>]

RECURSIVE SumSq(_, _, _)
SumSq(a, b, i) ==
    IF i = 0 THEN 0 ELSE (a[i] - b[i]) * (a[i] - b[i]) + SumSq(a, b, i - 1)

\* IndexFlatL2's metric: squared Euclidean distance
L2Sqr(a, b) == SumSq(a, b, Len(a))

\* the distance IndexFlatL2.search reports for a missing neighbour (label -1)
PadDistance == 1000000

\* IndexFlatL2.search(query, k): k hits, nearest first, equal distances by
\* ascending id; when the index holds fewer than k vectors the rest are
\* (label -1, PadDistance).  Labels are 0-based.
IndexSearch(index, query, k) ==
    LET n == Len(index)
        dist(i) == L2Sqr(query, index[i])
        before(j, i) == dist(j) < dist(i) \/ (dist(j) = dist(i) /\ j < i)
        rank(i) == Cardinality({j \in 1..n : before(j, i)})
        at(p) == CHOOSE i \in 1..n : rank(i) = p - 1
    IN  [p \in 1..k |->
            IF p <= n THEN [idx |-> at(p) - 1, distance |-> dist(at(p))]
            ELSE [idx |-> 0 - 1, distance |-> PadDistance]]

\* score = 1 / (1 + distance), kept as the exact fraction <<numerator, denominator>>
Score(distance) == <<1, 1 + distance>>

\* the loop of similarity_search over the hits
RECURSIVE CollectHits(_, _, _, _)
CollectHits(st, hits, p, results) ==
    IF p > Len(hits) THEN Ok(results)
    ELSE LET idx == hits[p].idx
         IN  IF idx < Len(st.texts)
             THEN IF ~InRange(st.texts, idx) \/ ~InRange(st.metadatas, idx)
                  THEN Raise("IndexError", results)
                  ELSE CollectHits(st, hits, p + 1,
                           Append(results,
                                  [text |-> Item(st.texts, idx),
                                   metadata |-> Item(st.metadatas, idx),
                                   score |-> Score(hits[p].distance)]))
             ELSE CollectHits(st, hits, p + 1, results)

similarity_search(st, query_embedding, k) ==
    CollectHits(st, IndexSearch(st.index, query_embedding, k), 1, <<>>)

\* np.array(embeddings).astype('float32') followed by index.add: a batch that is
\* empty, ragged or of another dimension than the index raises before anything
\* is stored
EmbeddingsAccepted(embeddings) ==
    /\ Len(embeddings) > 0
    /\ \A i \in 1..Len(embeddings) : Len(embeddings[i]) = dimension

\* the optional metadatas argument: None, or a list
NoMetadatas == [given |-> FALSE, list |-> <<>>]
Metadatas(list) == [given |-> TRUE, list |-> list]

\* add_documents extending texts and metadatas before the index takes the
\* embeddings
add_documents_texts_first(st, texts, embeddings, metadatas) ==
    LET metas == IF ~metadatas.given
                 THEN [i \in 1..Len(texts) |-> EmptyMeta]
                 ELSE metadatas.list
        extended == [st EXCEPT !.texts = st.texts \o texts,
                               !.metadatas = st.metadatas \o metas]
    IN  IF ~EmbeddingsAccepted(embeddings)
        THEN Raise("ValueError", extended)
        ELSE Ok([extended EXCEPT !.index = st.index \o embeddings])

add_documents(st, texts, embeddings, metadatas) ==
    LET metas == IF ~metadatas.given
                 THEN [i \in 1..Len(texts) |-> EmptyMeta]
                 ELSE metadatas.list
    IN  IF ~EmbeddingsAccepted(embeddings)
        THEN Raise("ValueError", st)
        ELSE Ok([index |-> st.index \o embeddings,
                 texts |-> st.texts \o texts,
                 metadatas |-> st.metadatas \o metas])

(***************************************************************************)
(* Persistence: index.faiss, texts.json and metadata.json in one           *)
(* directory.  json.dump writes tokens and json.load parses them back;     *)
(* write_index stores the vectors as one flat array.                       *)
(***************************************************************************)
ArrayKeys == {"tags", "cuisine", "dietary_options"}
NumberKeys == {"admission_fee", "duration_days"}

JsonString(s) == [str |-> s]
JsonArray(items) == [arr |-> items]

JsonValue(key, v) ==
    IF key \in ArrayKeys THEN JsonArray([i \in 1..Len(v) |-> JsonString(v[i])])
    ELSE IF key \in NumberKeys THEN [num |-> v]
    ELSE JsonString(v)

JsonObject(d) == [obj |-> [key \in DOMAIN d |-> JsonValue(key, d[key])]]

\* json.dump(self.texts) and json.dump(self.metadatas)
JsonDumpTexts(texts) == JsonArray([i \in 1..Len(texts) |-> JsonString(texts[i])])
JsonDumpMetadatas(metadatas) ==
    JsonArray([i \in 1..Len(metadatas) |-> JsonObject(metadatas[i])])

\* json.load: the Python value of a parsed document
ParseScalar(j) ==
    IF "arr" \in DOMAIN j THEN [i \in 1..Len(j.arr) |-> j.arr[i].str]
    ELSE IF "num" \in DOMAIN j THEN j.num
    ELSE j.str

JsonLoadTexts(j) == [i \in 1..Len(j.arr) |-> j.arr[i].str]
JsonLoadMetadatas(j) ==
    [i \in 1..Len(j.arr) |->
        [key \in DOMAIN j.arr[i].obj |-> ParseScalar(j.arr[i].obj[key])]]

RECURSIVE Flatten(_)
Flatten(vectors) ==
    IF vectors = <<>> THEN <<>> ELSE Head(vectors) \o Flatten(Tail(vectors))

\* faiss.write_index / faiss.read_index
write_index(index) == [d |-> dimension, ntotal |-> Len(index), xb |-> Flatten(index)]
read_index(blob) ==
    [i \in 1..blob.ntotal |-> SubSeq(blob.xb, (i - 1) * blob.d + 1, i * blob.d)]

NoDirectory ==
    [exists |-> FALSE, index_faiss |-> write_index(<<>>),
     texts_json |-> JsonDumpTexts(<<>>), metadata_json |-> JsonDumpMetadatas(<<>>)]

\* FAISSVectorStore.save
save(st) ==
    [exists |-> TRUE,
     index_faiss |-> write_index(st.index),
     texts_json |-> JsonDumpTexts(st.texts),
     metadata_json |-> JsonDumpMetadatas(st.metadatas)]

Artifacts == {"index.faiss", "texts.json", "metadata.json"}

\* load with the texts read but never assigned to self.texts
load_without_texts(st, dsk, unreadable) ==
    IF unreadable # "none" THEN Raise("RuntimeError", st)
    ELSE Ok([st EXCEPT !.index = read_index(dsk.index_faiss),
                       !.metadatas = JsonLoadMetadatas(dsk.metadata_json)])

\* FAISSVectorStore.load: the three artifacts are read in turn and each
\* assignment takes effect before the next read; `unreadable` is the artifact
\* (if any) whose read or parse fails
load(st, dsk, unreadable) ==
    IF unreadable = "index.faiss" THEN Raise("RuntimeError", st)
    ELSE LET s1 == [st EXCEPT !.index = read_index(dsk.index_faiss)]
         IN  IF unreadable = "texts.json" THEN Raise("JSONDecodeError", s1)
             ELSE LET s2 == [s1 EXCEPT !.texts = JsonLoadTexts(dsk.texts_json)]
                  IN  IF unreadable = "metadata.json"
                      THEN Raise("JSONDecodeError", s2)
                      ELSE Ok([s2 EXCEPT
                                 !.metadatas = JsonLoadMetadatas(dsk.metadata_json)])

\* BaseRetriever.load: False when the directory is missing or the store's load
\* raises, True otherwise; value is the store afterwards
BaseRetriever_load(st, dsk, unreadable) ==
    IF ~dsk.exists THEN [returned |-> FALSE, store |-> st]
    ELSE LET r == load(st, dsk, unreadable)
         IN  [returned |-> (r.raised = ""), store |-> r.value]

(***************************************************************************)
(* The retrievers: BaseRetriever.retrieve and the category filters.        *)
(***************************************************************************)
\* what dict.get(key) returns for a missing key
PyNone == "<None>"

BUDGET == "budget"
MODERATE == "moderate"
LUXURY == "luxury"
BudgetLevel == {BUDGET, MODERATE, LUXURY}

\* the loop body with required_tags tested by any() instead of all()
AttractionKept_any_required(result, filters) ==
    LET metadata == result.metadata
        tags == Range(Get(metadata, "tags", <<>>))
    IN  /\ ~("max_price" \in DOMAIN filters
             /\ Get(metadata, "admission_fee", 0) > filters.max_price)
        /\ ~("categories" \in DOMAIN filters
             /\ Get(metadata, "category", PyNone) \notin Range(filters.categories))
        /\ ~("required_tags" \in DOMAIN filters
             /\ ~(\E tag \in Range(filters.required_tags) : tag \in tags))
        /\ ~("excluded_tags" \in DOMAIN filters
             /\ (\E tag \in Range(filters.excluded_tags) : tag \in tags))

\* one pass of AttractionRetriever._apply_filters' loop body: TRUE when the
\* result is appended, FALSE when some check hits `continue`
AttractionKept(result, filters) ==
    LET metadata == result.metadata
        tags == Range(Get(metadata, "tags", <<>>))
    IN  IF "max_price" \in DOMAIN filters
           /\ Get(metadata, "admission_fee", 0) > filters.max_price
        THEN FALSE
        ELSE IF "categories" \in DOMAIN filters
                /\ Get(metadata, "category", PyNone) \notin Range(filters.categories)
        THEN FALSE
        ELSE IF "required_tags" \in DOMAIN filters
                /\ ~(\A tag \in Range(filters.required_tags) : tag \in tags)
        THEN FALSE
        ELSE IF "excluded_tags" \in DOMAIN filters
                /\ (\E tag \in Range(filters.excluded_tags) : tag \in tags)
        THEN FALSE
        ELSE TRUE

\* the loop body with dietary_restrictions and cuisines tested by all()
\* instead of any()
FoodKept_all_requested(result, filters) ==
    LET metadata == result.metadata
        available_options == Range(Get(metadata, "dietary_options", <<>>))
        price_range == Get(metadata, "price_range", "EE")
        available_cuisines == Range(Get(metadata, "cuisine", <<>>))
    IN  /\ ~("dietary_restrictions" \in DOMAIN filters
             /\ ~(\A opt \in Range(filters.dietary_restrictions) :
                      opt \in available_options))
        /\ ~("budget_level" \in DOMAIN filters
             /\ \/ (filters.budget_level = BUDGET /\ price_range \notin {"E", "EE"})
                \/ (filters.budget_level = LUXURY /\ price_range = "E"))
        /\ ~("cuisines" \in DOMAIN filters
             /\ ~(\A c \in Range(filters.cuisines) : c \in available_cuisines))

\* a budget tier that keeps only the cheapest band
FoodKept_cheapest_only(result, filters) ==
    LET metadata == result.metadata
        available_options == Range(Get(metadata, "dietary_options", <<>>))
        price_range == Get(metadata, "price_range", "EE")
        available_cuisines == Range(Get(metadata, "cuisine", <<>>))
    IN  /\ ~("dietary_restrictions" \in DOMAIN filters
             /\ ~(\E opt \in Range(filters.dietary_restrictions) :
                      opt \in available_options))
        /\ ~("budget_level" \in DOMAIN filters
             /\ \/ (filters.budget_level = BUDGET /\ price_range # "E")
                \/ (filters.budget_level = LUXURY /\ price_range = "E"))
        /\ ~("cuisines" \in DOMAIN filters
             /\ ~(\E c \in Range(filters.cuisines) : c \in available_cuisines))

\* FoodRetriever._apply_filters' loop body
FoodKept(result, filters) ==
    LET metadata == result.metadata
        available_options == Range(Get(metadata, "dietary_options", <<>>))
        price_range == Get(metadata, "price_range", "EE")
        available_cuisines == Range(Get(metadata, "cuisine", <<>>))
    IN  IF "dietary_restrictions" \in DOMAIN filters
           /\ ~(\E opt \in Range(filters.dietary_restrictions) :
                    opt \in available_options)
        THEN FALSE
        ELSE IF "budget_level" \in DOMAIN filters
                /\ \/ (filters.budget_level = BUDGET /\ price_range \notin {"E", "EE"})
                   \/ (filters.budget_level = LUXURY /\ price_range = "E")
        THEN FALSE
        ELSE IF "cuisines" \in DOMAIN filters
                /\ ~(\E c \in Range(filters.cuisines) : c \in available_cuisines)
        THEN FALSE
        ELSE TRUE

Abs(x) == IF x < 0 THEN 0 - x ELSE x

\* a duration filter without the day of tolerance
ItineraryKept_exact_duration(result, filters) ==
    LET metadata == result.metadata
    IN  /\ ~("destination" \in DOMAIN filters
             /\ Get(metadata, "destination", PyNone) # filters.destination)
        /\ ~("duration_days" \in DOMAIN filters
             /\ Get(metadata, "duration_days", 0) # filters.duration_days)

\* ItineraryRetriever._apply_filters' loop body
ItineraryKept(result, filters) ==
    LET metadata == result.metadata
    IN  IF "destination" \in DOMAIN filters
           /\ Get(metadata, "destination", PyNone) # filters.destination
        THEN FALSE
        ELSE IF "duration_days" \in DOMAIN filters
                /\ Abs(Get(metadata, "duration_days", 0) - filters.duration_days) > 1
        THEN FALSE
        ELSE TRUE

\* the loops `for result in results: ... filtered.append(result)`
AttractionRetriever_apply_filters(results, filters) ==
    LET kept(result) == AttractionKept(result, filters)
    IN  SelectSeq(results, kept)

FoodRetriever_apply_filters(results, filters) ==
    LET kept(result) == FoodKept(result, filters)
    IN  SelectSeq(results, kept)

ItineraryRetriever_apply_filters(results, filters) ==
    LET kept(result) == ItineraryKept(result, filters)
    IN  SelectSeq(results, kept)

\* BaseRetriever._apply_filters (TipsRetriever keeps it)
BaseRetriever_apply_filters(results, filters) == results

\* self._apply_filters of the retriever for `source`
apply_filters(source, results, filters) ==
    CASE source = ATTRACTIONS -> AttractionRetriever_apply_filters(results, filters)
      [] source = FOOD -> FoodRetriever_apply_filters(results, filters)
      [] source = ITINERARIES -> ItineraryRetriever_apply_filters(results, filters)
      [] OTHER -> BaseRetriever_apply_filters(results, filters)

NoFilters == [k \in {} |-> 0]

\* retrieve fetching only k candidates before filtering
retrieve_without_overfetch(source, st, query_embedding, k, filters) ==
    LET found == similarity_search(st, query_embedding, k)
    IN  IF found.raised # "" THEN found
        ELSE LET results == IF DOMAIN filters # {}
                            THEN apply_filters(source, found.value, filters)
                            ELSE found.value
             IN  Ok(Take(results, k))

\* BaseRetriever.retrieve, from the query's embedding on: search k * 2, filter
\* when filters is non-empty, trim to k; an exception of the search propagates
retrieve(source, st, query_embedding, k, filters) ==
    LET found == similarity_search(st, query_embedding, k * 2)
    IN  IF found.raised # "" THEN found
        ELSE LET results == IF DOMAIN filters # {}
                            THEN apply_filters(source, found.value, filters)
                            ELSE found.value
             IN  Ok(Take(results, k))

(***************************************************************************)
(* StoreSpec: one FAISSVectorStore and its directory.                      *)
(***************************************************************************)
Call(op, args, raised, value) ==
    [op |-> op, args |-> args, raised |-> raised, value |-> value]

\* the workflow's variables while no workflow runs
FlowIdle ==
    /\ retrievers = [n \in {} |-> NewStore]
    /\ state = [k \in {} |-> 0]
    /\ active = {}
    /\ finished = {}
    /\ pending = <<>>
    /\ order = <<>>
    /\ runs = [n \in {} |-> 0]
    /\ cycles = 0
    /\ failed = {}
    /\ status = "idle"

\* the embedding model and the retrievers' directories while nothing uses them
EmbedIdle ==
    /\ disks = [c \in {} |-> 0]
    /\ main_retriever = [c \in {} |-> NewStore]
    /\ model = 0
    /\ constructed = 0
    /\ pc = [c \in {} |-> ""]
    /\ instance = [c \in {} |-> 0]

StoreDocs == SubSeq(Catalogue(ATTRACTIONS), 1, 2)

\* the batches handed to add_documents: one document, or both
Batches == {<<1>>, <<2>>, <<1, 2>>}

\* how the caller builds the three arguments
AddModes == {"aligned", "no_metadatas", "short_embeddings", "short_metadatas",
             "wrong_dimension", "short_vector"}

BatchTexts(ids) == [i \in 1..Len(ids) |-> StoreDocs[ids[i]].text]

BatchEmbeddings(ids, mode) ==
    LET all == [i \in 1..Len(ids) |-> StoreDocs[ids[i]].embedding]
    IN  CASE mode = "short_embeddings" -> SubSeq(all, 1, Len(ids) - 1)
          [] mode = "wrong_dimension" -> [all EXCEPT ![1] = Append(@, 0)]
          [] mode = "short_vector" -> [all EXCEPT ![Len(ids)] = Tail(@)]
          [] OTHER -> all

BatchMetadatas(ids, mode) ==
    LET all == [i \in 1..Len(ids) |-> StoreDocs[ids[i]].metadata]
    IN  CASE mode = "no_metadatas" -> NoMetadatas
          [] mode = "short_metadatas" -> Metadatas(SubSeq(all, 1, Len(ids) - 1))
          [] OTHER -> Metadatas(all)

StoreInit ==
    /\ store = NewStore
    /\ disk = NoDirectory
    /\ saved = NewStore
    /\ ret = Call("__init__", <<>>, "", TRUE)
    /\ calls = 0
    /\ source_type = ATTRACTIONS
    /\ FlowIdle
    /\ EmbedIdle

\* FAISSVectorStore(dimension): a fresh store replaces the one in use
Construct ==
    /\ ret.op # "__init__"
    /\ calls < MaxCalls
    /\ calls' = calls + 1
    /\ store' = NewStore
    /\ ret' = Call("__init__", <<>>, "", TRUE)
    /\ UNCHANGED <<disk, saved, source_type>>
    /\ UNCHANGED <<flowVars, disks, main_retriever, embedVars>>

AddDocuments ==
    \E ids \in Batches, mode \in AddModes :
        /\ calls < MaxCalls
        /\ calls' = calls + 1
        /\ Len(store.texts) + Len(ids) <= MaxStored
        /\ Len(store.index) + Len(ids) <= MaxStored
        /\ Len(store.metadatas) + Len(ids) <= MaxStored
        /\ LET r == add_documents(store, BatchTexts(ids), BatchEmbeddings(ids, mode),
                                  BatchMetadatas(ids, mode))
           IN  /\ store' = r.value
               /\ ret' = Call("add_documents",
                               [texts |-> BatchTexts(ids),
                                embeddings |-> BatchEmbeddings(ids, mode)],
                               r.raised, TRUE)
        /\ UNCHANGED <<disk, saved, source_type>>
        /\ UNCHANGED <<flowVars, disks, main_retriever, embedVars>>

\* the k of a search: fewer than, as many as, and more than the documents held
SearchKs == 1..(MaxStored + 1)

SimilaritySearch ==
    \E query \in QueryEmbeddings, k \in SearchKs :
        /\ calls < MaxCalls
        /\ calls' = calls + 1
        /\ LET r == similarity_search(store, query, k)
           IN  ret' = Call("similarity_search", [query |-> query, k |-> k],
                           r.raised, r.value)
        /\ UNCHANGED <<store, disk, saved, source_type>>
        /\ UNCHANGED <<flowVars, disks, main_retriever, embedVars>>

Save ==
    /\ calls < MaxCalls
    /\ calls' = calls + 1
    /\ disk' = save(store)
    /\ saved' = store
    /\ ret' = Call("save", <<>>, "", TRUE)
    /\ UNCHANGED <<store, source_type>>
    /\ UNCHANGED <<flowVars, disks, main_retriever, embedVars>>

Load ==
    \E unreadable \in Artifacts \cup {"none"} :
        /\ calls < MaxCalls
        /\ calls' = calls + 1
        /\ LET r == BaseRetriever_load(store, disk, unreadable)
           IN  /\ store' = r.store
               /\ ret' = Call("load", [unreadable |-> unreadable], "", r.returned)
        /\ UNCHANGED <<disk, saved, source_type>>
        /\ UNCHANGED <<flowVars, disks, main_retriever, embedVars>>

\* BaseRetriever.retrieve as the request that follows a load (main.py loads
\* the knowledge bases, then plans); `loaded` is what that load returned
RetrieveAfterLoad ==
    \E query \in QueryEmbeddings, k \in 1..MaxK :
        /\ calls < MaxCalls
        /\ ret.op = "load"
        /\ calls' = calls + 1
        /\ LET r == retrieve(source_type, store, query, k, NoFilters)
           IN  ret' = Call("retrieve",
                           [query |-> query, k |-> k, filters |-> NoFilters,
                            loaded |-> ret.value],
                           r.raised, r.value)
        /\ UNCHANGED <<store, disk, saved, source_type>>
        /\ UNCHANGED <<flowVars, disks, main_retriever, embedVars>>

StoreNext ==
    \/ Construct
    \/ AddDocuments
    \/ SimilaritySearch
    \/ Save
    \/ Load
    \/ RetrieveAfterLoad

StoreSpec == StoreInit /\ [][StoreNext]_vars

(***************************************************************************)
(* Properties of the vector store (checked under StoreSpec).               *)
(***************************************************************************)
\* texts[i], metadatas[i] and the i-th stored embedding describe one document
\* (a document added without metadatas has the empty record)
Aligned(st) ==
    /\ Len(st.index) = Len(st.texts)
    /\ Len(st.metadatas) = Len(st.texts)
    /\ \A i \in 1..Len(st.texts) :
          \E d \in 1..Len(StoreDocs) :
              /\ st.texts[i] = StoreDocs[d].text
              /\ st.index[i] = StoreDocs[d].embedding
              /\ st.metadatas[i] \in {StoreDocs[d].metadata, EmptyMeta}

\* C4 (bounded output): on an index holding N documents similarity_search(q, k)
\* returns exactly min(k, N) results, and when N < k they are the N stored
\* documents, each once.
C4_BoundedOutput ==
    (ret.op = "similarity_search" /\ Aligned(store)) =>
        LET n == Len(store.texts)
        IN  /\ ret.raised = ""
            /\ Len(ret.value) = Min(ret.args.k, n)
            /\ n < ret.args.k =>
                  \A i \in 1..n :
                      Cardinality({p \in 1..Len(ret.value) :
                                      ret.value[p].text = store.texts[i]
                                      /\ ret.value[p].metadata = store.metadatas[i]}) >= 1

\* C5 (alignment invariant): after any sequence of add_documents, save and
\* load calls, failing ones and calls with arguments of different lengths
\* included, texts, metadatas and the stored embeddings have one length and
\* position i of each describes the same document.
C5_AlignmentInvariant == Aligned(store)

\* C6 (persist/restore round trip): after a load that succeeded, every
\* similarity_search (any query, any k) answers as it does on the store that
\* was saved: same texts, metadata and scores in the same order.
C6_RoundTrip ==
    (ret.op = "load" /\ ret.value = TRUE) =>
        \A query \in QueryEmbeddings, k \in SearchKs :
            similarity_search(store, query, k) = similarity_search(saved, query, k)

\* a store of two documents was saved and loaded back
C6_Witness ==
    /\ ret.op = "load"
    /\ ret.value = TRUE
    /\ Len(saved.texts) = 2
    /\ Aligned(saved)
    /\ similarity_search(store, <<1, 1>>, 2).raised = ""
    /\ Len(similarity_search(store, <<1, 1>>, 2).value) = 2

\* C14 (non-raising load): a retriever's load never raises and returns False
\* when its directory is missing or an artifact cannot be read; the retrieve
\* that follows a failed load does not raise, and returns no documents when
\* the index is empty.
C14_NonRaisingLoad ==
    /\ ret.op = "load" =>
          /\ ret.raised = ""
          /\ (~disk.exists \/ ret.args.unreadable # "none") => ret.value = FALSE
    /\ (ret.op = "retrieve" /\ ret.args.loaded = FALSE) =>
          /\ ret.raised = ""
          /\ store.index = <<>> => ret.value = <<>>

\* some embedding of the batch has another length than the index's dimension
DimensionMismatch(embeddings) ==
    \E i \in 1..Len(embeddings) : Len(embeddings[i]) # dimension

\* C17 (dimension mismatch): an add_documents whose batch has an embedding of
\* another length than the index's dimension raises and leaves the index,
\* the texts and the metadatas as they were before the call.
C17_DimensionMismatch ==
    [][(ret'.op = "add_documents" /\ calls' = calls + 1
        /\ DimensionMismatch(ret'.args.embeddings))
          => (ret'.raised # "" /\ store' = store)]_vars

\* a store holding a document has refused a batch whose embedding is too short
C17_Witness ==
    /\ ret.op = "add_documents"
    /\ ret.raised # ""
    /\ Len(ret.args.embeddings) >= 1
    /\ Len(ret.args.embeddings[Len(ret.args.embeddings)]) < dimension
    /\ Len(store.texts) >= 1
    /\ Aligned(store)

\* the squared distance from the query to the document a result names
ResultDistance(query, result) ==
    LET d == CHOOSE d \in 1..Len(StoreDocs) : StoreDocs[d].text = result.text
    IN  L2Sqr(query, StoreDocs[d].embedding)

\* where a result's document was first inserted
InsertedAt(st, result) ==
    CHOOSE i \in 1..Len(st.texts) :
        /\ st.texts[i] = result.text
        /\ \A j \in 1..(i - 1) : st.texts[j] # result.text

\* C12 (search ordering): the results of similarity_search come in ascending
\* order of the squared distance from the query to their documents, with
\* non-increasing scores, documents at one distance in insertion order, and
\* the first score is 1 iff the first document is at distance 0.
C12_SearchOrdering ==
    (ret.op = "similarity_search" /\ ret.raised = "" /\ Aligned(store)) =>
        LET results == ret.value
            query == ret.args.query
        IN  /\ \A p \in 1..(Len(results) - 1) :
                  /\ ResultDistance(query, results[p])
                        <= ResultDistance(query, results[p + 1])
                  /\ results[p].score[2] <= results[p + 1].score[2]
                  /\ ResultDistance(query, results[p])
                        = ResultDistance(query, results[p + 1])
                     => InsertedAt(store, results[p]) <= InsertedAt(store, results[p + 1])
            /\ Len(results) >= 1
                  => (results[1].score = <<1, 1>>
                        <=> ResultDistance(query, results[1]) = 0)

(***************************************************************************)
(* RetrieverSpec: one retriever over a loaded index, answering one         *)
(* retrieve or _apply_filters call (neither changes the retriever, so one  *)
(* call from every index covers every call).                               *)
(***************************************************************************)
Sources == {ATTRACTIONS, FOOD, TIPS, ITINERARIES}

\* the store after the ingestion added the first n documents of a catalogue
RECURSIVE Ingested(_, _)
Ingested(docs, n) ==
    IF n = 0 THEN NewStore
    ELSE add_documents(Ingested(docs, n - 1), <<docs[n].text>>, <<docs[n].embedding>>,
                       Metadatas(<<docs[n].metadata>>)).value

\* a filter key that is absent, or present with one of the given values
Opt(key, values) == {NoFilters} \cup {(key :> v) : v \in values}

FilterChoices(source) ==
    CASE source = ATTRACTIONS ->
           {a @@ b @@ c @@ d :
               a \in Opt("max_price", {10, 25}),
               b \in Opt("categories", {<<"museum", "park">>}),
               c \in Opt("required_tags", {<<"art">>, <<"art", "food">>}),
               d \in Opt("excluded_tags", {<<"crowds">>})}
      [] source = FOOD ->
           {a @@ b @@ c :
               a \in Opt("dietary_restrictions",
                         {<<>>, <<"vegetarian">>, <<"vegan", "halal">>}),
               b \in Opt("budget_level", BudgetLevel),
               c \in Opt("cuisines", {<<"french", "thai">>})}
      [] source = ITINERARIES ->
           {a @@ b :
               a \in Opt("destination", {"Paris", "paris"}),
               b \in Opt("duration_days", {2, 5, 8})}
      [] OTHER -> {NoFilters}

RetrieverInit ==
    /\ source_type \in Sources
    /\ \E n \in 0..Len(Catalogue(source_type)) :
          store = Ingested(Catalogue(source_type), n)
    /\ disk = NoDirectory
    /\ saved = NewStore
    /\ ret = Call("__init__", <<>>, "", TRUE)
    /\ calls = 0
    /\ FlowIdle
    /\ EmbedIdle

Retrieve ==
    \E query \in QueryEmbeddings, k \in 1..MaxK, filters \in FilterChoices(source_type) :
        /\ calls = 0
        /\ calls' = calls + 1
        /\ LET r == retrieve(source_type, store, query, k, filters)
           IN  ret' = Call("retrieve", [query |-> query, k |-> k, filters |-> filters],
                           r.raised, r.value)
        /\ UNCHANGED <<store, disk, saved, source_type>>
        /\ UNCHANGED <<flowVars, disks, main_retriever, embedVars>>

\* _apply_filters called, as retrieve calls it, on the k * 2 results of the index
ApplyFilters ==
    \E query \in QueryEmbeddings, k \in 1..MaxK, filters \in FilterChoices(source_type) :
        /\ calls = 0
        /\ calls' = calls + 1
        /\ similarity_search(store, query, k * 2).raised = ""
        /\ LET results == similarity_search(store, query, k * 2).value
           IN  ret' = Call("_apply_filters", [results |-> results, filters |-> filters],
                           "", apply_filters(source_type, results, filters))
        /\ UNCHANGED <<store, disk, saved, source_type>>
        /\ UNCHANGED <<flowVars, disks, main_retriever, embedVars>>

RetrieverNext ==
    \/ Retrieve
    \/ ApplyFilters

RetrieverSpec == RetrieverInit /\ [][RetrieverNext]_vars

(***************************************************************************)
(* Properties of the retrievers (checked under RetrieverSpec).             *)
(***************************************************************************)
\* the category's filter predicate on one candidate
Passes(source, result, filters) ==
    CASE source = ATTRACTIONS -> AttractionKept(result, filters)
      [] source = FOOD -> FoodKept(result, filters)
      [] source = ITINERARIES -> ItineraryKept(result, filters)
      [] OTHER -> TRUE

\* C9 (over-fetch and truncate): retrieve(query, k, filters) takes the 2k
\* candidates of the index, keeps those passing the category filter in search
\* order and returns the first k of them, so the result is no longer than k
\* and is a prefix of the passing candidates; if the search raises, so does
\* retrieve.
C9_OverFetchTruncate ==
    ret.op = "retrieve" =>
        LET k == ret.args.k
            candidates == similarity_search(store, ret.args.query, 2 * k)
            passing(result) == Passes(source_type, result, ret.args.filters)
        IN  IF candidates.raised # "" THEN ret.raised = candidates.raised
            ELSE LET kept == SelectSeq(candidates.value, passing)
                 IN  /\ ret.raised = ""
                     /\ Len(candidates.value) <= 2 * k
                     /\ Len(ret.value) <= k
                     /\ Len(ret.value) = Min(k, Len(kept))
                     /\ \A i \in 1..Len(ret.value) : ret.value[i] = kept[i]

\* a retrieve whose filter rejected a candidate and whose result was cut to k
C9_Witness ==
    /\ ret.op = "retrieve"
    /\ ret.raised = ""
    /\ Len(ret.value) = ret.args.k
    /\ LET candidates == similarity_search(store, ret.args.query, 2 * ret.args.k).value
           passing(result) == Passes(source_type, result, ret.args.filters)
       IN  /\ Len(SelectSeq(candidates, passing)) > ret.args.k
           /\ Len(SelectSeq(candidates, passing)) < Len(candidates)
           /\ ~passing(candidates[1])

\* what one present filter key asks of an attraction's metadata
AttractionKeySatisfied(key, metadata, filters) ==
    LET tags == Range(Get(metadata, "tags", <<>>))
    IN  CASE key = "max_price" -> Get(metadata, "admission_fee", 0) <= filters.max_price
          [] key = "categories" ->
                /\ "category" \in DOMAIN metadata
                /\ metadata.category \in Range(filters.categories)
          [] key = "required_tags" -> Range(filters.required_tags) \subseteq tags
          [] key = "excluded_tags" -> Range(filters.excluded_tags) \cap tags = {}
          [] OTHER -> TRUE

AttractionSatisfies(metadata, filters) ==
    \A key \in DOMAIN filters : AttractionKeySatisfied(key, metadata, filters)

Without(filters, key) == [x \in DOMAIN filters \ {key} |-> filters[x]]

\* C10 (attraction filter conjunction): the attraction filter keeps exactly the
\* candidates that satisfy every present key, in order; a candidate missing a
\* required tag is dropped whatever else it satisfies; a candidate with no
\* tags is never dropped by excluded_tags.
C10_AttractionFilterConjunction ==
    (ret.op = "_apply_filters" /\ source_type = ATTRACTIONS) =>
        LET results == ret.args.results
            filters == ret.args.filters
            satisfies(result) == AttractionSatisfies(result.metadata, filters)
            notExcluded(result) ==
                AttractionSatisfies(result.metadata, Without(filters, "excluded_tags"))
        IN  /\ ret.value = SelectSeq(results, satisfies)
            /\ \A i \in 1..Len(results) :
                  ("required_tags" \in DOMAIN filters
                   /\ ~(Range(filters.required_tags)
                          \subseteq Range(Get(results[i].metadata, "tags", <<>>))))
                  => results[i] \notin Range(ret.value)
            /\ \A i \in 1..Len(results) :
                  Get(results[i].metadata, "tags", <<>>) = <<>>
                  => (results[i] \in Range(ret.value) <=> notExcluded(results[i]))

\* a candidate passing every key but required_tags, of which it has one but
\* not all, was dropped while another candidate was kept
C10_Witness ==
    /\ ret.op = "_apply_filters"
    /\ source_type = ATTRACTIONS
    /\ "required_tags" \in DOMAIN ret.args.filters
    /\ "excluded_tags" \in DOMAIN ret.args.filters
    /\ Len(ret.value) >= 1
    /\ \E i \in 1..Len(ret.args.results) :
          LET tags == Range(Get(ret.args.results[i].metadata, "tags", <<>>))
              required == Range(ret.args.filters.required_tags)
          IN  /\ required \cap tags # {}
              /\ ~(required \subseteq tags)
              /\ AttractionSatisfies(ret.args.results[i].metadata,
                                     Without(ret.args.filters, "required_tags"))
              /\ ret.args.results[i] \notin Range(ret.value)

\* what one present filter key asks of a food place's metadata
FoodKeySatisfied(key, metadata, filters) ==
    CASE key = "dietary_restrictions" ->
            Range(filters.dietary_restrictions)
               \cap Range(Get(metadata, "dietary_options", <<>>)) # {}
      [] key = "cuisines" ->
            Range(filters.cuisines) \cap Range(Get(metadata, "cuisine", <<>>)) # {}
      [] key = "budget_level" ->
            LET price_range == Get(metadata, "price_range", "EE")
            IN  /\ (filters.budget_level = BUDGET => price_range \in {"E", "EE"})
                /\ (filters.budget_level = LUXURY => price_range # "E")
      [] OTHER -> TRUE

FoodSatisfies(metadata, filters) ==
    \A key \in DOMAIN filters : FoodKeySatisfied(key, metadata, filters)

\* C11 (food filter disjunction): the food filter keeps, in order, exactly the
\* candidates that satisfy every present key, where dietary_restrictions and
\* cuisines are each satisfied by one requested value among the candidate's;
\* under a filter of dietary_restrictions alone, or of cuisines alone, a
\* candidate is kept iff it has at least one of the requested values.
C11_FoodFilterDisjunction ==
    (ret.op = "_apply_filters" /\ source_type = FOOD) =>
        LET results == ret.args.results
            filters == ret.args.filters
            satisfies(result) == FoodSatisfies(result.metadata, filters)
        IN  /\ ret.value = SelectSeq(results, satisfies)
            /\ \A i \in 1..Len(results) :
                  /\ DOMAIN filters = {"dietary_restrictions"}
                        => (results[i] \in Range(ret.value)
                              <=> \E opt \in Range(filters.dietary_restrictions) :
                                     opt \in Range(Get(results[i].metadata,
                                                       "dietary_options", <<>>)))
                  /\ DOMAIN filters = {"cuisines"}
                        => (results[i] \in Range(ret.value)
                              <=> \E c \in Range(filters.cuisines) :
                                     c \in Range(Get(results[i].metadata,
                                                     "cuisine", <<>>)))

\* a food place with one but not all of the requested dietary options and one
\* but not all of the requested cuisines was kept, another was dropped
C11_Witness ==
    /\ ret.op = "_apply_filters"
    /\ source_type = FOOD
    /\ "dietary_restrictions" \in DOMAIN ret.args.filters
    /\ "cuisines" \in DOMAIN ret.args.filters
    /\ Len(ret.value) < Len(ret.args.results)
    /\ \E i \in 1..Len(ret.value) :
          LET options == Range(Get(ret.value[i].metadata, "dietary_options", <<>>))
              cuisine == Range(Get(ret.value[i].metadata, "cuisine", <<>>))
              required == Range(ret.args.filters.dietary_restrictions)
              cuisines == Range(ret.args.filters.cuisines)
          IN  /\ required \cap options # {}
              /\ ~(required \subseteq options)
              /\ cuisines \cap cuisine # {}
              /\ ~(cuisines \subseteq cuisine)

\* the price bands of a food record, cheapest first ("E" stands for the euro sign)
PriceBands == <<"E", "EE", "EEE">>

\* C28 (food budget filter): under a budget_level filter, BUDGET rejects
\* exactly the candidates of the most expensive price band, LUXURY exactly
\* those of the cheapest band and MODERATE none: a candidate is kept iff it
\* passes the other present keys and its band is not the one its tier rejects.
C28_FoodBudgetFilter ==
    (ret.op = "_apply_filters" /\ source_type = FOOD
     /\ "budget_level" \in DOMAIN ret.args.filters) =>
        LET results == ret.args.results
            filters == ret.args.filters
            rejected(metadata) ==
                /\ "price_range" \in DOMAIN metadata
                /\ \/ /\ filters.budget_level = BUDGET
                      /\ metadata.price_range = PriceBands[Len(PriceBands)]
                   \/ /\ filters.budget_level = LUXURY
                      /\ metadata.price_range = PriceBands[1]
        IN  \A i \in 1..Len(results) :
                results[i] \in Range(ret.value)
                <=> /\ FoodSatisfies(results[i].metadata, Without(filters, "budget_level"))
                    /\ ~rejected(results[i].metadata)

\* under BUDGET alone the place of the most expensive band was rejected, the
\* place of the cheapest band and the place without a price range were kept
C28_Witness ==
    /\ ret.op = "_apply_filters"
    /\ source_type = FOOD
    /\ ret.args.filters = [budget_level |-> BUDGET]
    /\ \E i, j, l \in 1..Len(ret.args.results) :
          /\ Get(ret.args.results[i].metadata, "price_range", "") = "EEE"
          /\ ret.args.results[i] \notin Range(ret.value)
          /\ Get(ret.args.results[j].metadata, "price_range", "") = "E"
          /\ ret.args.results[j] \in Range(ret.value)
          /\ "price_range" \notin DOMAIN ret.args.results[l].metadata
          /\ ret.args.results[l] \in Range(ret.value)

\* C29 (itinerary filter): the itinerary filter keeps, in order, exactly the
\* past itineraries whose destination is the requested one, letter for
\* letter, when destination is present, and whose duration_days differs from
\* the target by at most one day when duration_days is present.
C29_ItineraryFilter ==
    (ret.op = "_apply_filters" /\ source_type = ITINERARIES) =>
        LET results == ret.args.results
            filters == ret.args.filters
            described(result) ==
                {"destination", "duration_days"} \subseteq DOMAIN result.metadata
            satisfies(result) ==
                /\ "destination" \in DOMAIN filters
                      => result.metadata.destination = filters.destination
                /\ "duration_days" \in DOMAIN filters
                      => result.metadata.duration_days - filters.duration_days
                            \in {0 - 1, 0, 1}
        IN  (\A i \in 1..Len(results) : described(results[i]))
            => ret.value = SelectSeq(results, satisfies)

\* under both keys the three-day Paris itinerary was kept for a target of two
\* days and the week in Rome was dropped
C29_Witness ==
    /\ ret.op = "_apply_filters"
    /\ source_type = ITINERARIES
    /\ ret.args.filters = [destination |-> "Paris", duration_days |-> 2]
    /\ \E i, j \in 1..Len(ret.args.results) :
          /\ ret.args.results[i].metadata = [destination |-> "Paris", duration_days |-> 3]
          /\ ret.args.results[i] \in Range(ret.value)
          /\ ret.args.results[j].metadata.destination = "Rome"
          /\ ret.args.results[j] \notin Range(ret.value)

\* the metadata key that a filter key of a category inspects
InspectedKey(source, key) ==
    CASE source = ATTRACTIONS /\ key = "max_price" -> "admission_fee"
      [] source = ATTRACTIONS /\ key = "categories" -> "category"
      [] source = ATTRACTIONS /\ key \in {"required_tags", "excluded_tags"} -> "tags"
      [] source = FOOD /\ key = "dietary_restrictions" -> "dietary_options"
      [] source = FOOD /\ key = "budget_level" -> "price_range"
      [] source = FOOD /\ key = "cuisines" -> "cuisine"
      [] OTHER -> key

\* C18 (total filters): the filter of every category never raises, and drops
\* every candidate whose metadata lacks the key that some present filter key
\* inspects.
C18_TotalFilters ==
    (ret.op = "_apply_filters" /\ source_type \in {ATTRACTIONS, FOOD, ITINERARIES}) =>
        /\ ret.raised = ""
        /\ \A i \in 1..Len(ret.args.results) :
              \A key \in DOMAIN ret.args.filters :
                  InspectedKey(source_type, key) \notin DOMAIN ret.args.results[i].metadata
                     => ret.args.results[i] \notin Range(ret.value)

(***************************************************************************)
(* The workflow nodes (src/graph/nodes.py).                                *)
(***************************************************************************)
max_retrieval_results == 10

\* the preferences of the planning requests: a budget trip like the one of
\* examples/basic_planner.py, the CLI's plan command's, and a one-day luxury
\* trip.  Dates are day numbers.
ExamplePreferences ==
    [destinations |-> <<"Paris">>, start_date |-> 15, end_date |-> 17,
     budget_level |-> BUDGET, dietary_restrictions |-> <<"vegetarian">>,
     interests |-> <<"art", "food">>, avoid |-> <<"crowds">>, pace |-> "moderate",
     walking_preference |-> TRUE, group_type |-> "couple"]

PlanPreferences ==
    [destinations |-> <<"Paris">>, start_date |-> 30, end_date |-> 32,
     budget_level |-> MODERATE, dietary_restrictions |-> <<>>,
     interests |-> <<"culture", "food">>, avoid |-> <<>>, pace |-> "moderate",
     walking_preference |-> TRUE, group_type |-> PyNone]

LuxuryPreferences ==
    [destinations |-> <<"Paris", "Rome">>, start_date |-> 1, end_date |-> 1,
     budget_level |-> LUXURY, dietary_restrictions |-> <<"vegan">>,
     interests |-> <<>>, avoid |-> <<>>, pace |-> "relaxed",
     walking_preference |-> FALSE, group_type |-> "family"]

UserPreferences == {ExamplePreferences, PlanPreferences, LuxuryPreferences}

\* (prefs.end_date - prefs.start_date).days + 1
DurationDays(prefs) == (prefs.end_date - prefs.start_date) + 1

\* IntentAnalyzerNode._determine_sources
determine_sources(prefs) == <<ATTRACTIONS, FOOD, TIPS, ITINERARIES>>

\* filters whose price ceiling falls to every tier but BUDGET
build_filters_ceiling_for_all(prefs) ==
    LET price == IF prefs.budget_level = BUDGET THEN ("max_price" :> 10)
                 ELSE ("max_price" :> 25)
        excluded == IF prefs.avoid # <<>> THEN ("excluded_tags" :> prefs.avoid)
                    ELSE NoFilters
        required == IF prefs.interests # <<>> THEN ("required_tags" :> prefs.interests)
                    ELSE NoFilters
        attraction_filters == price @@ excluded @@ required
        food_filters == [dietary_restrictions |-> prefs.dietary_restrictions,
                         budget_level |-> prefs.budget_level]
        itinerary_filters == [duration_days |-> DurationDays(prefs)]
    IN  (ATTRACTIONS :> attraction_filters) @@ (FOOD :> food_filters)
        @@ (ITINERARIES :> itinerary_filters)

\* IntentAnalyzerNode._build_filters
build_filters(prefs) ==
    LET price == IF prefs.budget_level = BUDGET THEN ("max_price" :> 10)
                 ELSE IF prefs.budget_level = MODERATE THEN ("max_price" :> 25)
                 ELSE NoFilters
        excluded == IF prefs.avoid # <<>> THEN ("excluded_tags" :> prefs.avoid)
                    ELSE NoFilters
        required == IF prefs.interests # <<>> THEN ("required_tags" :> prefs.interests)
                    ELSE NoFilters
        attraction_filters == price @@ excluded @@ required
        food_filters == [dietary_restrictions |-> prefs.dietary_restrictions,
                         budget_level |-> prefs.budget_level]
        itinerary_filters == [duration_days |-> DurationDays(prefs)]
    IN  (ATTRACTIONS :> attraction_filters) @@ (FOOD :> food_filters)
        @@ (ITINERARIES :> itinerary_filters)

\* IntentAnalyzerNode._determine_priority
determine_priority(prefs) ==
    (IF prefs.budget_level = BUDGET THEN <<"cost">> ELSE <<>>)
    \o (IF prefs.walking_preference THEN <<"proximity">> ELSE <<>>)
    \o (IF "food" \in Range(prefs.interests) THEN <<"culinary">> ELSE <<>>)

\* an analysis that reports itself in errors
IntentAnalyzerNode_reporting(st) ==
    LET prefs == st.user_preferences
    IN  Ok([parsed_intent |->
                [destinations |-> prefs.destinations,
                 duration_days |-> DurationDays(prefs),
                 budget_level |-> prefs.budget_level,
                 dietary_needs |-> prefs.dietary_restrictions,
                 interests |-> prefs.interests,
                 avoid_list |-> prefs.avoid,
                 pace |-> prefs.pace,
                 walkable |-> prefs.walking_preference,
                 group_type |-> prefs.group_type],
            retrieval_strategy |->
                [sources |-> determine_sources(prefs),
                 filters |-> build_filters(prefs),
                 priority |-> determine_priority(prefs)],
            errors |-> Append(Get(st, "errors", <<>>), "intent analysed"),
            warnings |-> Get(st, "warnings", <<>>)])

\* IntentAnalyzerNode.__call__: the update it returns
IntentAnalyzerNode(st) ==
    LET prefs == st.user_preferences
    IN  Ok([parsed_intent |->
                [destinations |-> prefs.destinations,
                 duration_days |-> DurationDays(prefs),
                 budget_level |-> prefs.budget_level,
                 dietary_needs |-> prefs.dietary_restrictions,
                 interests |-> prefs.interests,
                 avoid_list |-> prefs.avoid,
                 pace |-> prefs.pace,
                 walkable |-> prefs.walking_preference,
                 group_type |-> prefs.group_type],
            retrieval_strategy |->
                [sources |-> determine_sources(prefs),
                 filters |-> build_filters(prefs),
                 priority |-> determine_priority(prefs)],
            errors |-> Get(st, "errors", <<>>),
            warnings |-> Get(st, "warnings", <<>>)])

\* ParallelRetrieverNode._build_query: the query string, kept as its parts
build_query(prefs, source) ==
    CASE source = ATTRACTIONS ->
           [about |-> source, destination |-> prefs.destinations,
            words |-> IF prefs.interests # <<>> THEN prefs.interests
                      ELSE <<"popular attractions">>]
      [] source = FOOD ->
           [about |-> source, destination |-> prefs.destinations,
            words |-> <<prefs.budget_level>> \o prefs.dietary_restrictions]
      [] source = TIPS ->
           [about |-> source, destination |-> prefs.destinations,
            words |-> <<"travel tips local advice best time to visit">>]
      [] source = ITINERARIES ->
           [about |-> source, destination |-> prefs.destinations,
            words |-> <<"day itinerary", prefs.budget_level>>]
      [] OTHER ->
           [about |-> source, destination |-> prefs.destinations, words |-> <<>>]

\* EmbeddingModel.embed_text: the external model, some fixed function from
\* texts to vectors of the index's dimension
embed_text(query) ==
    IF query.about \in {ATTRACTIONS, TIPS} THEN <<1, 1>> ELSE <<1, 0>>

\* every retrieval node writing the attractions' field
ContextKey_shared(source) == "attractions_context"

\* context_key = f"{self.source.value}_context"
ContextKey(source) ==
    CASE source = ATTRACTIONS -> "attractions_context"
      [] source = FOOD -> "food_context"
      [] source = TRANSPORT -> "transport_context"
      [] source = TIPS -> "tips_context"
      [] source = ITINERARIES -> "itineraries_context"

\* a lookup that falls back on the attractions retriever
get_retriever_defaulting(stores, source) ==
    Ok(IF source \in DOMAIN stores THEN stores[source] ELSE stores[ATTRACTIONS])

\* MultiSourceRetriever._get_retriever: the retriever's store, KeyError for a
\* source that has no retriever
get_retriever(stores, source) ==
    IF source \in DOMAIN stores THEN Ok(stores[source]) ELSE Raise("KeyError", NewStore)

\* ParallelRetrieverNode.__call__ for the node of `source`, whose own
\* MultiSourceRetriever holds `stores`
ParallelRetrieverNode(source, stores, st) ==
    IF "retrieval_strategy" \notin DOMAIN st THEN Raise("KeyError", <<>>)
    ELSE LET strategy == st.retrieval_strategy
             prefs == st.user_preferences
             query == build_query(prefs, source)
             filters == Get(strategy.filters, source, NoFilters)
             retriever == get_retriever(stores, source)
         IN  IF retriever.raised # "" THEN Raise(retriever.raised, <<>>)
             ELSE LET results == retrieve(source, retriever.value, embed_text(query),
                                          max_retrieval_results, filters)
                  IN  IF results.raised # "" THEN results
                      ELSE Ok((ContextKey(source) :> results.value))

\* one line of the aggregated context
Line(kind, text, n) == [kind |-> kind, text |-> text, n |-> n]

\* f"{score:.2f}": the score in hundredths, rounded
Hundredths(score) == (200 * score[1] + score[2]) \div (2 * score[2])

AttractionLines(items) ==
    IF items = <<>> THEN <<>>
    ELSE <<Line("heading", "## Available Attractions", 0)>>
         \o [j \in 1..(3 * Len(items)) |->
                LET i == (j + 2) \div 3
                IN  CASE j % 3 = 1 -> Line("item", items[i].text, i)
                      [] j % 3 = 2 -> Line("score", "", Hundredths(items[i].score))
                      [] OTHER -> Line("metadata", Get(items[i].metadata, "id", ""), i)]

FoodLines(items) ==
    IF items = <<>> THEN <<>>
    ELSE <<Line("heading", "## Food Options", 0)>>
         \o [j \in 1..(2 * Len(items)) |->
                LET i == (j + 1) \div 2
                IN  IF j % 2 = 1 THEN Line("item", items[i].text, i)
                    ELSE Line("score", "", Hundredths(items[i].score))]

TipLines(items) ==
    IF items = <<>> THEN <<>>
    ELSE <<Line("heading", "## Local Tips & Advice", 0)>>
         \o [i \in 1..Len(items) |-> Line("tip", items[i].text, 0)]

\* item['text'][:200]: every text of the catalogues is shorter than 200 characters
ItineraryLines(items) ==
    IF items = <<>> THEN <<>>
    ELSE <<Line("heading", "## Similar Past Itineraries", 0)>>
         \o [i \in 1..Len(items) |-> Line("itinerary", items[i].text, i)]

\* the context built without the [:10], [:10], [:5] and [:3] slices
build_context_string_unsliced(attractions, food, tips, itineraries, preferences) ==
    << Line("heading", "## Trip Planning Context", 0),
       Line("destinations", "", Len(preferences.destinations)),
       Line("duration", "", DurationDays(preferences)),
       Line("budget", preferences.budget_level, 0),
       Line("group", IF preferences.group_type = PyNone THEN "N/A"
                     ELSE preferences.group_type, 0) >>
    \o AttractionLines(attractions)
    \o FoodLines(food)
    \o TipLines(tips)
    \o ItineraryLines(itineraries)

\* ContextAggregatorNode._build_context_string: the lines joined by "\n"
build_context_string(attractions, food, tips, itineraries, preferences) ==
    << Line("heading", "## Trip Planning Context", 0),
       Line("destinations", "", Len(preferences.destinations)),
       Line("duration", "", DurationDays(preferences)),
       Line("budget", preferences.budget_level, 0),
       Line("group", IF preferences.group_type = PyNone THEN "N/A"
                     ELSE preferences.group_type, 0) >>
    \o AttractionLines(Take(attractions, 10))
    \o FoodLines(Take(food, 10))
    \o TipLines(Take(tips, 5))
    \o ItineraryLines(Take(itineraries, 3))

\* ContextAggregatorNode.__call__
ContextAggregatorNode(st) ==
    LET attractions == Get(st, "attractions_context", <<>>)
        food == Get(st, "food_context", <<>>)
        tips == Get(st, "tips_context", <<>>)
        itineraries == Get(st, "itinerary_context", <<>>)
    IN  Ok([aggregated_context |->
               build_context_string(attractions, food, tips, itineraries,
                                    st.user_preferences)])

(***************************************************************************)
(* The planning graph (src/graph/workflow.py) and its execution by         *)
(* planner_graph.invoke: the nodes scheduled together form a step, every   *)
(* node of a step reads the state the step started from, the updates are   *)
(* applied when the last node of the step has returned, and the successors *)
(* of the nodes that ran form the next step.  An exception in a node ends  *)
(* the run.                                                                *)
(***************************************************************************)
END == "__end__"

Nodes == {"analyze_intent", "retrieve_attractions", "retrieve_food", "retrieve_tips",
          "retrieve_itineraries", "aggregate_context"}

EntryPoint == "analyze_intent"

\* the node registered for each source
RetrieverNode(source) ==
    CASE source = ATTRACTIONS -> "retrieve_attractions"
      [] source = FOOD -> "retrieve_food"
      [] source = TIPS -> "retrieve_tips"
      [] source = ITINERARIES -> "retrieve_itineraries"

\* a graph in which retrieve_food waits for retrieve_attractions
Edges_chained ==
    { <<"analyze_intent", "retrieve_attractions">>,
      <<"retrieve_attractions", "retrieve_food">>,
      <<"analyze_intent", "retrieve_tips">>,
      <<"analyze_intent", "retrieve_itineraries">>,
      <<"retrieve_attractions", "aggregate_context">>,
      <<"retrieve_food", "aggregate_context">>,
      <<"retrieve_tips", "aggregate_context">>,
      <<"retrieve_itineraries", "aggregate_context">>,
      <<"aggregate_context", END>> }

\* the add_edge calls of build_planning_graph
Edges ==
    { <<"analyze_intent", "retrieve_attractions">>,
      <<"analyze_intent", "retrieve_food">>,
      <<"analyze_intent", "retrieve_tips">>,
      <<"analyze_intent", "retrieve_itineraries">>,
      <<"retrieve_attractions", "aggregate_context">>,
      <<"retrieve_food", "aggregate_context">>,
      <<"retrieve_tips", "aggregate_context">>,
      <<"retrieve_itineraries", "aggregate_context">>,
      <<"aggregate_context", END>> }

\* the iteration count from which should_replan stops asking for "generate"
ReplanLimit == 3

\* the conditional edge should_replan
should_replan(st) ==
    IF Get(st, "needs_replanning", FALSE) /\ Get(st, "iteration_count", 0) < ReplanLimit
    THEN "generate" ELSE "end"

\* a graph whose aggregation is followed by should_replan, "generate" leading
\* back to the aggregation
NextNodes_replanning(node, st) ==
    IF node = "aggregate_context"
    THEN {IF should_replan(st) = "generate" THEN "aggregate_context" ELSE END}
    ELSE {m \in Nodes \cup {END} : <<node, m>> \in Edges}

\* the nodes the compiled graph schedules after `node`: every edge is
\* unconditional, should_replan is attached to no node
NextNodes(node, st) == {m \in Nodes \cup {END} : <<node, m>> \in Edges}

\* the fields of PlannerState: the keys of the graph's state
Channels ==
    {"user_preferences", "parsed_intent", "retrieval_strategy", "attractions_context",
     "food_context", "transport_context", "tips_context", "itinerary_context",
     "aggregated_context", "draft_itinerary", "validation_results", "constraints_met",
     "needs_replanning", "replan_reason", "final_itinerary", "errors", "warnings",
     "iteration_count", "processing_time"}

\* the part of a node's update that the graph's state takes: the declared keys
Declared(update) == [key \in DOMAIN update \cap Channels |-> update[key]]

\* two updates of one step write one key
Collide(writes) ==
    \E i, j \in 1..Len(writes) :
        i < j /\ DOMAIN Declared(writes[i]) \cap DOMAIN Declared(writes[j]) # {}

RECURSIVE Merge(_, _)
Merge(st, writes) ==
    IF writes = <<>> THEN st
    ELSE Merge(Declared(Head(writes)) @@ st, Tail(writes))

\* the end of a step: the state with the step's updates, InvalidUpdateError
\* when two of them write one key
ApplyWrites(st, writes) ==
    IF Collide(writes) THEN Raise("InvalidUpdateError", st)
    ELSE Ok(Merge(st, writes))

\* the state main.py's plan command starts the graph with; a caller that asks
\* for replanning also sets needs_replanning
initial_state(preferences, replanning) ==
    [user_preferences |-> preferences, errors |-> <<>>, warnings |-> <<>>,
     iteration_count |-> 0]
    @@ (IF replanning THEN ("needs_replanning" :> TRUE) ELSE [k \in {} |-> TRUE])

\* planner_graph.invoke(initial_state).  Every retrieval node owns a
\* MultiSourceRetriever of its own, whose index of the node's source is empty
\* or holds the source's catalogue.
Init ==
    /\ store = NewStore
    /\ disk = NoDirectory
    /\ saved = NewStore
    /\ ret = Call("__init__", <<>>, "", TRUE)
    /\ calls = 0
    /\ source_type = ATTRACTIONS
    /\ \E full \in SUBSET Sources :
          retrievers = [c \in Sources |->
                          IF c \in full
                          THEN Ingested(Catalogue(c), Len(Catalogue(c)))
                          ELSE NewStore]
    /\ \E preferences \in UserPreferences, replanning \in BOOLEAN :
          state = Declared(initial_state(preferences, replanning))
    /\ active = {EntryPoint}
    /\ finished = {}
    /\ pending = <<>>
    /\ order = <<>>
    /\ runs = [n \in Nodes |-> 0]
    /\ cycles = 0
    /\ failed = {}
    /\ status = "running"
    /\ EmbedIdle

\* a scheduled node has run with `outcome`: an exception ends the run, the
\* last node of a step applies the step's updates and schedules the next step
Complete(node, outcome) ==
    /\ status = "running"
    /\ node \in active \ finished
    /\ cycles < MaxCycles
    /\ runs' = [runs EXCEPT ![node] = @ + 1]
    /\ IF outcome.raised # ""
       THEN /\ status' = "aborted"
            /\ failed' = failed \cup {node}
            /\ active' = {}
            /\ finished' = {}
            /\ pending' = <<>>
            /\ UNCHANGED <<state, order, cycles>>
       ELSE LET writes == Append(pending, outcome.value)
                done == finished \cup {node}
                merged == ApplyWrites(state, writes)
                next == UNION {NextNodes(m, merged.value) : m \in active} \ {END}
            IN  /\ order' = Append(order, node)
                /\ failed' = failed
                /\ IF done # active
                   THEN /\ pending' = writes
                        /\ finished' = done
                        /\ UNCHANGED <<state, active, cycles, status>>
                   ELSE /\ pending' = <<>>
                        /\ finished' = {}
                        /\ IF merged.raised # ""
                           THEN /\ status' = "aborted"
                                /\ active' = {}
                                /\ UNCHANGED <<state, cycles>>
                           ELSE /\ state' = merged.value
                                /\ active' = next
                                /\ status' = IF next = {} THEN "done" ELSE "running"
                                /\ cycles' = IF "aggregate_context" \in active /\ next # {}
                                             THEN cycles + 1 ELSE cycles

AnalyzeIntent ==
    /\ Complete("analyze_intent", IntentAnalyzerNode(state))
    /\ UNCHANGED <<retrievers, storeVars, disks, main_retriever, embedVars>>

RunRetrieverNode ==
    \E source \in Sources :
        /\ Complete(RetrieverNode(source), ParallelRetrieverNode(source, retrievers, state))
        /\ UNCHANGED <<retrievers, storeVars, disks, main_retriever, embedVars>>

AggregateContext ==
    /\ Complete("aggregate_context", ContextAggregatorNode(state))
    /\ UNCHANGED <<retrievers, storeVars, disks, main_retriever, embedVars>>

Next == AnalyzeIntent \/ RunRetrieverNode \/ AggregateContext

Spec == Init /\ [][Next]_vars

\* a scheduled node runs: the steps of Next, as they show in runs
NodeRuns ==
    /\ status = "running"
    /\ cycles < MaxCycles
    /\ \E node \in active \ finished : runs' = [runs EXCEPT ![node] = @ + 1]

\* invoke runs every scheduled node
FairSpec == Spec /\ WF_runs(NodeRuns)

(***************************************************************************)
(* Properties of the workflow.                                             *)
(***************************************************************************)
InputKeys == {"user_preferences", "errors", "warnings", "iteration_count", "needs_replanning"}

\* the state the run was started with: no node changes these fields
GivenState == [key \in DOMAIN state \cap InputKeys |-> state[key]]

AnalysedState == Merge(GivenState, <<IntentAnalyzerNode(GivenState).value>>)

\* the result the node of `source` returns in this run
NodeUpdate(source) == ParallelRetrieverNode(source, retrievers, AnalysedState).value

\* the state the four retrieval nodes leave when they return in the order of
\* their registration
RegistrationOrderMerge ==
    Merge(AnalysedState, <<NodeUpdate(ATTRACTIONS), NodeUpdate(FOOD), NodeUpdate(TIPS),
                           NodeUpdate(ITINERARIES)>>)

\* C1: in whichever order the four retrieval nodes return, no two of their
\* updates write one field, no update is rejected, and the state the
\* aggregation starts from is, field by field, the state they leave when they
\* return in the order of their registration.
C1_FanOutIsolation ==
    /\ ~Collide(pending)
    /\ (status = "aborted" => failed # {})
    /\ ("aggregate_context" \in active => state = RegistrationOrderMerge)

\* the nodes returned in the reverse of their registration and the
\* aggregation is about to start from the merged state
C1_Witness ==
    /\ "aggregate_context" \in active
    /\ order = <<"analyze_intent", "retrieve_itineraries", "retrieve_tips",
                 "retrieve_food", "retrieve_attractions">>
    /\ state["attractions_context"] # <<>>
    /\ state["tips_context"] # <<>>

C3_IterationCap == [](cycles <= ReplanLimit) /\ <>(status # "running")

\* a run that was started with needs_replanning set has ended
C3_Witness ==
    /\ status = "done"
    /\ Get(state, "needs_replanning", FALSE)
    /\ "aggregated_context" \in DOMAIN state

\* C7: when a retrieval node has raised, the run is not aborted, and when it
\* is done a message is in errors and the aggregated context is there.
C7_FailureIsolation ==
    failed # {} =>
        /\ status # "aborted"
        /\ (status = "done" => /\ Len(Get(state, "errors", <<>>)) > 0
                               /\ "aggregated_context" \in DOMAIN state)

\* the sources whose node runs on an index that was never filled: its
\* directory was missing, or nothing loaded it
ColdSources == {c \in Sources : retrievers[c] = NewStore}

\* C16 (cold-start warning): a run in which some category's index is cold ends
\* at END with a warning for every cold category in warnings and with errors
\* as the caller gave it.
C16_ColdStartWarning ==
    (status # "running" /\ ColdSources # {}) =>
        /\ status = "done"
        /\ Len(Get(state, "warnings", <<>>)) >= Cardinality(ColdSources)
        /\ Get(state, "errors", <<>>) = <<>>

\* what a finished run leaves in the state
EndToEndResult ==
    LET prefs == state["user_preferences"]
    IN  /\ "parsed_intent" \in DOMAIN state
        /\ state["parsed_intent"].duration_days = (prefs.end_date - prefs.start_date) + 1
        /\ "retrieval_strategy" \in DOMAIN state
        /\ Range(state["retrieval_strategy"].sources) = Sources
        /\ "aggregated_context" \in DOMAIN state
        /\ state["aggregated_context"] # <<>>
        /\ \E i \in 1..Len(state["aggregated_context"]) :
              state["aggregated_context"][i] = Line("heading", "## Trip Planning Context", 0)
        /\ (prefs.start_date = 15 /\ prefs.end_date = 17 /\ prefs.budget_level = BUDGET)
              => /\ state["parsed_intent"].duration_days = 3
                 /\ state["retrieval_strategy"].filters[ATTRACTIONS].max_price = 10

\* C19 (end-to-end run): every run reaches END, with the duration, the four
\* sources and a non-empty aggregated context with the trip summary in its
\* state (duration 3 and max_price 10 for the budget trip of June 15 to 17).
C19_EndToEndRun == <>(status = "done" /\ EndToEndResult)

\* the field of PlannerState declared for a source's results
DeclaredField(source) ==
    CASE source = ATTRACTIONS -> "attractions_context"
      [] source = FOOD -> "food_context"
      [] source = TIPS -> "tips_context"
      [] source = ITINERARIES -> "itinerary_context"

SectionHeading(source) ==
    CASE source = ATTRACTIONS -> "## Available Attractions"
      [] source = FOOD -> "## Food Options"
      [] source = TIPS -> "## Local Tips & Advice"
      [] source = ITINERARIES -> "## Similar Past Itineraries"

\* C8: when a run is done, the results of every retrieval node are in the
\* field declared for its source, and the aggregated context has the section
\* of every source whose node returned a document.
C8_ResultHandOff ==
    status = "done" =>
        \A c \in Sources :
            LET results == NodeUpdate(c)[ContextKey(c)]
            IN  /\ DeclaredField(c) \in DOMAIN state
                /\ state[DeclaredField(c)] = results
                /\ (results # <<>>
                      => \E i \in 1..Len(state["aggregated_context"]) :
                            state["aggregated_context"][i]
                               = Line("heading", SectionHeading(c), 0))

(***************************************************************************)
(* EmbedSpec: the process-wide EmbeddingModel (src/utils/embeddings.py).   *)
(* get_embedding_model() made the one wrapper when the retrievers were     *)
(* built, at import; its SentenceTransformer is made lazily by the         *)
(* property `model`, which every embed_text goes through.  The callers are *)
(* the four retrieval nodes of one step of the graph, each embedding its   *)
(* query in a thread of its own; the property takes no lock, so a thread   *)
(* can be switched between its test, the construction, the assignment and  *)
(* the read of the result.                                                 *)
(***************************************************************************)
EmbedInit ==
    /\ store = NewStore
    /\ disk = NoDirectory
    /\ saved = NewStore
    /\ ret = Call("__init__", <<>>, "", TRUE)
    /\ calls = 0
    /\ source_type = ATTRACTIONS
    /\ FlowIdle
    /\ disks = [c \in {} |-> 0]
    /\ main_retriever = [c \in {} |-> NewStore]
    /\ model = 0
    /\ constructed = 0
    /\ pc = [c \in Sources |-> "embed_text"]
    /\ instance = [c \in Sources |-> 0]

\* if self._model is None:
TestModel(c) ==
    /\ pc[c] = "embed_text"
    /\ pc' = [pc EXCEPT ![c] = IF model = 0 THEN "construct" ELSE "return"]
    /\ UNCHANGED <<model, constructed, instance>>

\* SentenceTransformer(self.model_name)
ConstructModel(c) ==
    /\ pc[c] = "construct"
    /\ constructed' = constructed + 1
    /\ instance' = [instance EXCEPT ![c] = constructed + 1]
    /\ pc' = [pc EXCEPT ![c] = "assign"]
    /\ UNCHANGED model

\* self._model = ...
AssignModel(c) ==
    /\ pc[c] = "assign"
    /\ model' = instance[c]
    /\ pc' = [pc EXCEPT ![c] = "return"]
    /\ UNCHANGED <<constructed, instance>>

\* return self._model, on which embed_text calls encode
ReturnModel(c) ==
    /\ pc[c] = "return"
    /\ instance' = [instance EXCEPT ![c] = model]
    /\ pc' = [pc EXCEPT ![c] = "encode"]
    /\ UNCHANGED <<model, constructed>>

EmbedNext ==
    \E c \in Sources :
        /\ TestModel(c) \/ ConstructModel(c) \/ AssignModel(c) \/ ReturnModel(c)
        /\ UNCHANGED <<storeVars, flowVars, disks, main_retriever>>

EmbedSpec == EmbedInit /\ [][EmbedNext]_vars

\* C13 (one-time initialization): however the callers interleave, at most one
\* SentenceTransformer is ever constructed, and every caller that has its
\* model has the one instance that was constructed first.
C13_OneTimeInitialization ==
    /\ constructed <= 1
    /\ \A c \in Sources : pc[c] = "encode" => instance[c] = 1

(***************************************************************************)
(* LoaderSpec: MultiSourceRetriever.load_all on a freshly built            *)
(* coordinator, each category's directory being missing or holding the     *)
(* saved catalogue, with any artifact of it possibly unreadable.           *)
(***************************************************************************)
\* the order in which load_all calls the retrievers' load
LoadOrder == <<ATTRACTIONS, FOOD, TIPS, ITINERARIES>>

\* the loads made one after the other until one returns False
RECURSIVE LoadUntilFailure(_, _, _, _, _)
LoadUntilFailure(stores, dsks, unreadable, i, returned) ==
    IF i > Len(LoadOrder) THEN [raised |-> "", stores |-> stores, returned |-> returned]
    ELSE LET c == LoadOrder[i]
             r == BaseRetriever_load(stores[c], dsks[c], unreadable[c])
         IN  IF ~r.returned
             THEN [raised |-> "", stores |-> [stores EXCEPT ![c] = r.store],
                   returned |-> (c :> FALSE) @@ returned]
             ELSE LoadUntilFailure([stores EXCEPT ![c] = r.store], dsks, unreadable,
                                   i + 1, (c :> r.returned) @@ returned)

\* self.attractions.load(); self.food.load(); self.tips.load();
\* self.itineraries.load(): from the i-th on, `returned` collecting what each
\* load returned
RECURSIVE LoadEach(_, _, _, _, _)
LoadEach(stores, dsks, unreadable, i, returned) ==
    IF i > Len(LoadOrder) THEN [raised |-> "", stores |-> stores, returned |-> returned]
    ELSE LET c == LoadOrder[i]
             r == BaseRetriever_load(stores[c], dsks[c], unreadable[c])
         IN  LoadEach([stores EXCEPT ![c] = r.store], dsks, unreadable, i + 1,
                      (c :> r.returned) @@ returned)

\* MultiSourceRetriever.load_all
load_all(stores, dsks, unreadable) ==
    LoadEach(stores, dsks, unreadable, 1, [c \in {} |-> FALSE])

\* MultiSourceRetriever(): every retriever starts on an empty store
LoaderInit ==
    /\ store = NewStore
    /\ disk = NoDirectory
    /\ saved = NewStore
    /\ ret = Call("__init__", <<>>, "", TRUE)
    /\ calls = 0
    /\ source_type = ATTRACTIONS
    /\ retrievers = [c \in Sources |-> NewStore]
    /\ main_retriever = [c \in {} |-> NewStore]
    /\ \E present \in SUBSET Sources :
          disks = [c \in Sources |->
                     IF c \in present
                     THEN save(Ingested(Catalogue(c), Len(Catalogue(c))))
                     ELSE NoDirectory]
    /\ state = [k \in {} |-> 0]
    /\ active = {}
    /\ finished = {}
    /\ pending = <<>>
    /\ order = <<>>
    /\ runs = [n \in {} |-> 0]
    /\ cycles = 0
    /\ failed = {}
    /\ status = "idle"
    /\ model = 0
    /\ constructed = 0
    /\ pc = [c \in {} |-> ""]
    /\ instance = [c \in {} |-> 0]

LoadAll ==
    \E unreadable \in [Sources -> Artifacts \cup {"none"}] :
        /\ calls = 0
        /\ calls' = calls + 1
        /\ LET r == load_all(retrievers, disks, unreadable)
           IN  /\ retrievers' = r.stores
               /\ ret' = Call("load_all", unreadable, r.raised, r.returned)
        /\ UNCHANGED <<store, disk, saved, source_type, disks, main_retriever, embedVars>>
        /\ UNCHANGED <<state, active, finished, pending, order, runs, cycles, failed,
                       status>>

LoaderNext == LoadAll

LoaderSpec == LoaderInit /\ [][LoaderNext]_vars

\* C15 (independent bulk load): load_all does not raise; it calls the load of
\* each of the four categories, and each category's load returns and leaves
\* in its store what it does when it is the only one loaded: True and the
\* saved documents iff its directory is there and readable, whatever happened
\* to the other categories.
C15_IndependentBulkLoad ==
    ret.op = "load_all" =>
        /\ ret.raised = ""
        /\ \A c \in Sources :
              LET alone == BaseRetriever_load(NewStore, disks[c], ret.args[c])
              IN  /\ c \in DOMAIN ret.value
                  /\ ret.value[c] = alone.returned
                  /\ retrievers[c] = alone.store
                  /\ ret.value[c] <=> (disks[c].exists /\ ret.args[c] = "none")
                  /\ ret.value[c] =>
                        retrievers[c] = Ingested(Catalogue(c), Len(Catalogue(c)))

\* attractions' directory is missing and the tips' texts unreadable, yet the
\* food and the itineraries, loaded after them, are loaded
C15_Witness ==
    /\ ret.op = "load_all"
    /\ ~disks[ATTRACTIONS].exists
    /\ ~ret.value[ATTRACTIONS]
    /\ ret.value[FOOD]
    /\ Len(retrievers[FOOD].texts) = Len(Catalogue(FOOD))
    /\ disks[TIPS].exists
    /\ ret.args[TIPS] = "texts.json"
    /\ ~ret.value[TIPS]
    /\ ret.value[ITINERARIES]
    /\ Len(retrievers[ITINERARIES].texts) = Len(Catalogue(ITINERARIES))

(***************************************************************************)
(* AggregatorSpec: ContextAggregatorNode called on a state in which each   *)
(* of the four context fields is absent, empty, short, or MaxOver longer   *)
(* than the number of items the context shows of it.                       *)
(***************************************************************************)
\* how many items of a category the context shows
SectionLimit(source) ==
    CASE source = ATTRACTIONS -> 10
      [] source = FOOD -> 10
      [] source = TIPS -> 5
      [] source = ITINERARIES -> 3

\* n retrieved documents of a category, nearest first
ContextItems(source, n) ==
    [i \in 1..n |->
        LET doc == Catalogue(source)[((i - 1) % Len(Catalogue(source))) + 1]
        IN  [text |-> doc.text, metadata |-> doc.metadata, score |-> <<1, i>>]]

\* the values of a context field: absent (no key), or a list
ContextChoices(source) ==
    {[k \in {} |-> <<>>]}
    \cup {(DeclaredField(source) :> ContextItems(source, n)) :
             n \in {0, 1, 2, SectionLimit(source) + MaxOver}}

AggregatorInit ==
    /\ store = NewStore
    /\ disk = NoDirectory
    /\ saved = NewStore
    /\ ret = Call("__init__", <<>>, "", TRUE)
    /\ calls = 0
    /\ source_type = ATTRACTIONS
    /\ retrievers = [c \in Sources |-> NewStore]
    /\ \E preferences \in {ExamplePreferences, PlanPreferences},
          attractions \in ContextChoices(ATTRACTIONS), food \in ContextChoices(FOOD),
          tips \in ContextChoices(TIPS), itineraries \in ContextChoices(ITINERARIES) :
          state = attractions @@ food @@ tips @@ itineraries
                  @@ Declared(initial_state(preferences, FALSE))
    /\ active = {"aggregate_context"}
    /\ finished = {}
    /\ pending = <<>>
    /\ order = <<>>
    /\ runs = [n \in Nodes |-> 0]
    /\ cycles = 0
    /\ failed = {}
    /\ status = "running"
    /\ EmbedIdle

AggregatorNext == AggregateContext

AggregatorSpec == AggregatorInit /\ [][AggregatorNext]_vars

\* the items a context field holds ([] when the field is absent)
FieldItems(source) ==
    IF DeclaredField(source) \in DOMAIN state THEN state[DeclaredField(source)]
    ELSE <<>>

\* the lines of a context from the heading of a category to the next heading
SectionOf(context, source) ==
    LET at == {i \in 1..Len(context) :
                 context[i] = Line("heading", SectionHeading(source), 0)}
        first == CHOOSE i \in at : TRUE
        later == {i \in (first + 1)..Len(context) : context[i].kind = "heading"}
        last == IF later = {} THEN Len(context)
                ELSE (CHOOSE i \in later : \A j \in later : i <= j) - 1
    IN  IF at = {} THEN <<>> ELSE SubSeq(context, first + 1, last)

\* the lines of a section that show the text of a document
EntriesOf(context, source) ==
    LET IsEntry(line) == line.kind \in {"item", "tip", "itinerary"}
    IN  SelectSeq(SectionOf(context, source), IsEntry)

\* the headings of a context, in the order they appear
HeadingsOf(context) ==
    LET IsHeading(line) == line.kind = "heading"
        headings == SelectSeq(context, IsHeading)
    IN  [i \in 1..Len(headings) |-> headings[i].text]

\* the headings of the categories that hold documents, in the fixed order
ExpectedHeadings ==
    LET NonEmpty(source) == FieldItems(source) # <<>>
    IN  <<"## Trip Planning Context">>
        \o [i \in 1..Len(SelectSeq(LoadOrder, NonEmpty)) |->
               SectionHeading(SelectSeq(LoadOrder, NonEmpty)[i])]

\* C20 (aggregated context layout): the context the aggregator returns has
\* its sections in the order trip summary, attractions, food, tips,
\* itineraries; a section shows the first 10 attractions, 10 food items,
\* 5 tips or 3 itineraries of its field in input order; a field that is
\* empty or absent gives no section, and the call does not raise.
C20_AggregatedContextLayout ==
    (runs["aggregate_context"] = 1) =>
        /\ status = "done"
        /\ failed = {}
        /\ "aggregated_context" \in DOMAIN state
        /\ state["aggregated_context"][1] = Line("heading", "## Trip Planning Context", 0)
        /\ HeadingsOf(state["aggregated_context"]) = ExpectedHeadings
        /\ \A source \in Sources :
              LET items == FieldItems(source)
                  entries == EntriesOf(state["aggregated_context"], source)
                  shown == IF Len(items) < SectionLimit(source) THEN Len(items)
                           ELSE SectionLimit(source)
              IN  /\ Len(entries) = shown
                  /\ \A j \in 1..shown : entries[j].text = items[j].text

\* an overlong attraction list and an overlong itinerary list are cut while
\* the food field is absent and the tips field is empty
C20_Witness ==
    /\ runs["aggregate_context"] = 1
    /\ status = "done"
    /\ Len(FieldItems(ATTRACTIONS)) > SectionLimit(ATTRACTIONS)
    /\ Len(FieldItems(ITINERARIES)) > SectionLimit(ITINERARIES)
    /\ DeclaredField(FOOD) \notin DOMAIN state
    /\ DeclaredField(TIPS) \in DOMAIN state
    /\ state[DeclaredField(TIPS)] = <<>>
    /\ Len(EntriesOf(state["aggregated_context"], ATTRACTIONS)) = SectionLimit(ATTRACTIONS)
    /\ Len(EntriesOf(state["aggregated_context"], ITINERARIES)) = SectionLimit(ITINERARIES)

(***************************************************************************)
(* CoordinatorSpec: one MultiSourceRetriever whose indexes are empty or    *)
(* hold their catalogue, answering one _get_retriever or retrieve_all call *)
(* for tags of KnowledgeSource.                                            *)
(***************************************************************************)
\* the loop of retrieve_all from the i-th source on; results is the dict built
RECURSIVE RetrieveEach(_, _, _, _, _, _, _)
RetrieveEach(stores, query, sources, k, filters, i, results) ==
    IF i > Len(sources) THEN Ok(results)
    ELSE LET source == sources[i]
             retriever == get_retriever(stores, source)
             source_filters == Get(filters, source, NoFilters)
         IN  IF retriever.raised # "" THEN Raise(retriever.raised, <<>>)
             ELSE LET found == retrieve(source, retriever.value, query, k, source_filters)
                  IN  IF found.raised # "" THEN Raise(found.raised, <<>>)
                      ELSE RetrieveEach(stores, query, sources, k, filters, i + 1,
                                        (source :> found.value) @@ results)

\* MultiSourceRetriever.retrieve_all, from the query's embedding on
retrieve_all(stores, query, sources, k, filters) ==
    RetrieveEach(stores, query, sources, k, filters, 1, [c \in {} |-> <<>>])

\* the lists of sources asked for: one tag, or two
SourceLists ==
    {<<a>> : a \in KnowledgeSource}
    \cup {<<a, b>> : a \in KnowledgeSource, b \in KnowledgeSource}

CoordinatorInit ==
    /\ store = NewStore
    /\ disk = NoDirectory
    /\ saved = NewStore
    /\ ret = Call("__init__", <<>>, "", TRUE)
    /\ calls = 0
    /\ source_type = ATTRACTIONS
    /\ \E filled \in SUBSET Sources :
          retrievers = [c \in Sources |->
                          IF c \in filled THEN Ingested(Catalogue(c), Len(Catalogue(c)))
                          ELSE NewStore]
    /\ state = [k \in {} |-> 0]
    /\ active = {}
    /\ finished = {}
    /\ pending = <<>>
    /\ order = <<>>
    /\ runs = [n \in {} |-> 0]
    /\ cycles = 0
    /\ failed = {}
    /\ status = "idle"
    /\ EmbedIdle

GetRetriever ==
    \E source \in KnowledgeSource :
        /\ calls = 0
        /\ calls' = calls + 1
        /\ LET r == get_retriever(retrievers, source)
           IN  ret' = Call("_get_retriever", [source |-> source], r.raised, r.value)
        /\ UNCHANGED <<store, disk, saved, source_type, retrievers, disks, main_retriever,
                       embedVars>>
        /\ UNCHANGED <<state, active, finished, pending, order, runs, cycles, failed,
                       status>>

RetrieveAll ==
    \E query \in QueryEmbeddings, sources \in SourceLists, k \in 1..MaxK,
       filters \in {NoFilters, build_filters(ExamplePreferences)} :
        /\ calls = 0
        /\ calls' = calls + 1
        /\ LET r == retrieve_all(retrievers, query, sources, k, filters)
           IN  ret' = Call("retrieve_all",
                           [query |-> query, sources |-> sources, k |-> k,
                            filters |-> filters],
                           r.raised, r.value)
        /\ UNCHANGED <<store, disk, saved, source_type, retrievers, disks, main_retriever,
                       embedVars>>
        /\ UNCHANGED <<state, active, finished, pending, order, runs, cycles, failed,
                       status>>

CoordinatorNext ==
    \/ GetRetriever
    \/ RetrieveAll

CoordinatorSpec == CoordinatorInit /\ [][CoordinatorNext]_vars

\* C21 (unknown category): a dispatch for a tag that has no retriever (TRANSPORT)
\* fails with an error: _get_retriever raises instead of returning a retriever,
\* and retrieve_all raises instead of returning a result, be it empty or the
\* results of the other tags of the list.
C21_UnknownCategory ==
    /\ (ret.op = "_get_retriever" /\ ret.args.source \notin Sources) =>
          ret.raised = "KeyError"
    /\ (ret.op = "retrieve_all" /\ Range(ret.args.sources) \ Sources # {}) =>
          (ret.raised # "" /\ ret.value = <<>>)

\* retrieve_all meets TRANSPORT after it has retrieved the documents of a
\* filled attractions index, and raises KeyError
C21_Witness ==
    /\ ret.op = "retrieve_all"
    /\ ret.args.sources = <<ATTRACTIONS, TRANSPORT>>
    /\ retrievers[ATTRACTIONS].texts # <<>>
    /\ ret.raised = "KeyError"

(***************************************************************************)
(* Further properties of the workflow (Spec).                              *)
(***************************************************************************)
\* C22 (conditional replanning edge): once aggregate_context has completed,
\* the next step is the generation stage if and only if needs_replanning is
\* true and iteration_count < 3; in every other case the run has terminated.
C22_ConditionalReplanningEdge ==
    (runs["aggregate_context"] >= 1 /\ status # "aborted") =>
        IF Get(state, "needs_replanning", FALSE) /\ Get(state, "iteration_count", 0) < 3
        THEN status = "running" /\ active = {"generate"}
        ELSE status = "done" /\ active = {}

\* the candidates the food node's index returns for the run's query
FoodCandidates ==
    similarity_search(retrievers[FOOD],
                      embed_text(build_query(state["user_preferences"], FOOD)),
                      max_retrieval_results * 2).value

\* C26 (no dietary restriction means no dietary exclusion): when the
\* preferences list no dietary restriction, food_context holds the first k
\* of the candidates that pass the budget filter: none is rejected on dietary
\* grounds.
C26_NoDietaryExclusion ==
    ("food_context" \in DOMAIN state
     /\ state["user_preferences"].dietary_restrictions = <<>>) =>
        state["food_context"]
          = Take(FoodRetriever_apply_filters(
                     FoodCandidates,
                     [budget_level |-> state["user_preferences"].budget_level]),
                 max_retrieval_results)

\* C27 (additive state): a step of the run leaves every field the state
\* already has with the value it has (so no node changes user_preferences or
\* iteration_count, errors and warnings are after analyze_intent what they
\* were before it, and a field written by one node is not changed by a later
\* one), and once the run has ended the state changes no more.
C27_AdditiveState ==
    [][/\ \A key \in DOMAIN state :
              key \in DOMAIN state' /\ state'[key] = state[key]
       /\ status \in {"done", "aborted"} => state' = state]_vars

\* a run has ended with the fields of the three stages beside the given ones
C27_Witness ==
    /\ status = "done"
    /\ {"parsed_intent", "retrieval_strategy", "attractions_context", "food_context",
        "tips_context", "aggregated_context"} \subseteq DOMAIN state
    /\ state["user_preferences"] = ExamplePreferences
    /\ state["iteration_count"] = 0
    /\ state["errors"] = <<>>
    /\ state["warnings"] = <<>>

(***************************************************************************)
(* Further properties of the store (StoreSpec).                            *)
(***************************************************************************)
\* C23 (failed restore is a cold start): when the load of an existing
\* directory fails because one of its three artifacts is malformed, the store
\* is afterwards empty and aligned, or exactly as before the call, and a
\* similarity_search on it returns without raising.
C23_FailedRestoreIsColdStart ==
    [][(/\ ret'.op = "load"
        /\ calls' = calls + 1
        /\ disk.exists
        /\ ret'.args.unreadable # "none")
       => /\ ret'.value = FALSE
          /\ store' = NewStore \/ store' = store
          /\ \A query \in QueryEmbeddings, k \in SearchKs :
                similarity_search(store', query, k).raised = ""]_vars

\* C25 (no duplicate results): each element of a similarity_search result is
\* the document of a stored position of its own, so that no stored document
\* appears more than once in one result.
C25_NoDuplicateResults ==
    (ret.op = "similarity_search" /\ ret.raised = "" /\ Aligned(store)) =>
        \E position \in [1..Len(ret.value) -> 1..Len(store.texts)] :
            /\ \A p, q \in 1..Len(ret.value) : position[p] = position[q] => p = q
            /\ \A p \in 1..Len(ret.value) :
                  /\ ret.value[p].text = store.texts[position[p]]
                  /\ ret.value[p].metadata = store.metadatas[position[p]]
                  /\ ret.value[p].score
                       = Score(L2Sqr(ret.args.query, store.index[position[p]]))

(***************************************************************************)
(* PlanSpec: a caller that, like plan of main.py, builds a                 *)
(* MultiSourceRetriever, calls its load_all and then invokes the graph.    *)
(* The retrieval nodes were built when src/graph/nodes.py was imported,    *)
(* each with a MultiSourceRetriever of its own; their indexes are empty as *)
(* built, or were filled through the nodes' retriever attribute.           *)
(***************************************************************************)
\* the nodes whose own index holds documents when the caller starts
NodeIndexesFilled == {{}, {ATTRACTIONS}, Sources}

PlanInit ==
    /\ store = NewStore
    /\ disk = NoDirectory
    /\ saved = NewStore
    /\ ret = Call("__init__", <<>>, "", TRUE)
    /\ calls = 0
    /\ source_type = ATTRACTIONS
    /\ \E full \in NodeIndexesFilled :
          retrievers = [c \in Sources |->
                          IF c \in full
                          THEN Ingested(Catalogue(c), Len(Catalogue(c)))
                          ELSE NewStore]
    /\ main_retriever = [c \in Sources |-> NewStore]
    /\ \E present \in SUBSET Sources :
          disks = [c \in Sources |->
                     IF c \in present
                     THEN save(Ingested(Catalogue(c), Len(Catalogue(c))))
                     ELSE NoDirectory]
    /\ state = [k \in {} |-> 0]
    /\ active = {}
    /\ finished = {}
    /\ pending = <<>>
    /\ order = <<>>
    /\ runs = [n \in Nodes |-> 0]
    /\ cycles = 0
    /\ failed = {}
    /\ status = "idle"
    /\ model = 0
    /\ constructed = 0
    /\ pc = [c \in {} |-> ""]
    /\ instance = [c \in {} |-> 0]

\* retriever = MultiSourceRetriever(); retriever.load_all()
PlanLoadAll ==
    \E unreadable \in {[c \in Sources |-> "none"],
                        [c \in Sources |-> IF c = FOOD THEN "texts.json" ELSE "none"]} :
        /\ calls = 0
        /\ calls' = calls + 1
        /\ LET r == load_all(main_retriever, disks, unreadable)
           IN  /\ main_retriever' = r.stores
               /\ ret' = Call("load_all", unreadable, r.raised, r.returned)
        /\ UNCHANGED <<store, disk, saved, source_type, disks, embedVars, flowVars>>

\* planner_graph.invoke(initial_state)
PlanInvoke ==
    \E preferences \in UserPreferences :
        /\ ret.op = "load_all"
        /\ status = "idle"
        /\ state' = Declared(initial_state(preferences, FALSE))
        /\ active' = {EntryPoint}
        /\ status' = "running"
        /\ UNCHANGED <<retrievers, finished, pending, order, runs, cycles, failed>>
        /\ UNCHANGED <<storeVars, disks, main_retriever, embedVars>>

PlanNext ==
    \/ PlanLoadAll
    \/ PlanInvoke
    \/ AnalyzeIntent
    \/ RunRetrieverNode
    \/ AggregateContext

PlanSpec == PlanInit /\ [][PlanNext]_vars

\* C24 (loaded indexes are the queried indexes): once load_all has restored
\* the index of a category and the workflow has been invoked, the index the
\* category's node holds is the restored one (one index per category, shared
\* by the loader and the nodes), and the node, when it has run, has searched
\* the restored documents.
C24_LoadedIndexesAreQueried ==
    status # "idle" =>
        \A c \in Sources :
            main_retriever[c].texts # <<>> =>
                /\ retrievers[c] = main_retriever[c]
                /\ runs[RetrieverNode(c)] >= 1 =>
                      /\ RetrieverNode(c) \notin failed
                      /\ NodeUpdate(c)
                           = ParallelRetrieverNode(c, main_retriever, AnalysedState).value

(***************************************************************************)
(* IntentSpec: IntentAnalyzerNode as the first step of a run, over the     *)
(* preferences of every budget tier with and without interests and an      *)
(* avoid-list, and over states that differ in their other fields.          *)
(***************************************************************************)
PreferenceChoices ==
    {[ExamplePreferences EXCEPT !.budget_level = budget, !.interests = interests,
                                !.avoid = avoid, !.end_date = end_date] :
        budget \in BudgetLevel,
        interests \in {<<>>, <<"art">>, <<"art", "food">>},
        avoid \in {<<>>, <<"crowds">>},
        end_date \in {15, 17}}

IntentInit ==
    /\ store = NewStore
    /\ disk = NoDirectory
    /\ saved = NewStore
    /\ ret = Call("__init__", <<>>, "", TRUE)
    /\ calls = 0
    /\ source_type = ATTRACTIONS
    /\ retrievers = [c \in Sources |-> NewStore]
    /\ \E preferences \in PreferenceChoices, replanning \in BOOLEAN,
          errors \in {<<>>, <<"earlier error">>} :
          state = [Declared(initial_state(preferences, replanning))
                     EXCEPT !["errors"] = errors]
    /\ active = {EntryPoint}
    /\ finished = {}
    /\ pending = <<>>
    /\ order = <<>>
    /\ runs = [n \in Nodes |-> 0]
    /\ cycles = 0
    /\ failed = {}
    /\ status = "running"
    /\ EmbedIdle

IntentNext == AnalyzeIntent

IntentSpec == IntentInit /\ [][IntentNext]_vars

\* C30 (attraction filter derivation): the attractions filter that
\* analyze_intent builds has max_price 10 iff the tier is BUDGET, 25 iff it is
\* MODERATE and none for LUXURY, required_tags iff interests is non-empty and
\* then equal to it, excluded_tags iff the avoid-list is non-empty and then
\* equal to it; the strategy depends on the preferences alone, so that calls
\* with the same preferences return equal strategies.
C30_AttractionFilterDerivation ==
    "retrieval_strategy" \in DOMAIN state =>
        LET prefs == state["user_preferences"]
            strategy == state["retrieval_strategy"]
            filters == strategy.filters[ATTRACTIONS]
        IN  /\ ("max_price" \in DOMAIN filters /\ filters.max_price = 10)
                  <=> prefs.budget_level = BUDGET
            /\ ("max_price" \in DOMAIN filters /\ filters.max_price = 25)
                  <=> prefs.budget_level = MODERATE
            /\ prefs.budget_level = LUXURY => "max_price" \notin DOMAIN filters
            /\ "required_tags" \in DOMAIN filters <=> prefs.interests # <<>>
            /\ "required_tags" \in DOMAIN filters => filters.required_tags = prefs.interests
            /\ "excluded_tags" \in DOMAIN filters <=> prefs.avoid # <<>>
            /\ "excluded_tags" \in DOMAIN filters => filters.excluded_tags = prefs.avoid
            /\ DOMAIN filters \subseteq {"max_price", "required_tags", "excluded_tags"}
            /\ strategy
                 = IntentAnalyzerNode([user_preferences |-> prefs]).value.retrieval_strategy

\* a luxury request with interests and an avoid-list has been analysed in a
\* state that already held an error
C30_Witness ==
    /\ "retrieval_strategy" \in DOMAIN state
    /\ state["user_preferences"].budget_level = LUXURY
    /\ state["errors"] # <<>>
    /\ DOMAIN state["retrieval_strategy"].filters[ATTRACTIONS]
         = {"required_tags", "excluded_tags"}
====
